---- MODULE Spec2Model ----
(***************************************************************************)
(* Verification model of the stonescriptdb-gateway schema-deployment       *)
(* engine: migration runner, table deployer, function deployer, seeder    *)
(* runner, schema verifier, the /database/create pipeline, the /v2/migrate *)
(* handler, the connection pool manager, CREATE DATABASE, the column type  *)
(* checker, the content checksums and the database naming.                 *)
(*                                                                         *)
(* Each subsystem has its own variables and its own specification          *)
(* (SpecMig, SpecTables, SpecFn, SpecSeed, SpecVerify, SpecCreate,         *)
(* SpecCreateRace, SpecGate, SpecPool, SpecPoolSeq, SpecRouter, SpecDdl,   *)
(* SpecTypes, SpecChecksum); a specification leaves the variables of the   *)
(* other subsystems at their idle values.                                  *)
(***************************************************************************)
EXTENDS Integers, Sequences, FiniteSets, TLC

VARIABLES
    \* ---- migration runner (schema/migration.rs), one database ----
    migDisk,        \* migrations/ directory: file name -> parsed CREATE TABLE list
    migApplied,     \* _stonescriptdb_gateway_migrations rows, in id order
    migSucc,        \* per file: number of successful batch_execute calls so far
    migRecFail,     \* per file: number of failed tracking INSERTs so far
    migPlan,        \* last run: the ordered file list (after order_by_dependencies)
    migExec,        \* last run: the files whose SQL was sent, in order
    migOutcome,     \* last run: result of run_migrations_ordered
    \* ---- table deployer (schema/tables.rs), one fresh database ----
    tblDisk,        \* tables/ directory: file (named after its table) -> FK targets
    tblDb,          \* tables existing in the database
    tblTracking,    \* _stonescriptdb_gateway_tables rows (table names)
    tblExec,        \* tables whose CREATE TABLE batch was sent, in order
    tblOutcome,     \* result of deploy_tables
    \* ---- function deployer (schema/functions.rs), one database ----
    fnDisk,         \* functions/ directory: file name -> file content
    fnTracking,     \* _stonescriptdb_gateway_functions rows
    fnResident,     \* functions resident in the database, by drop signature
    fnLog,          \* last deploy: statements sent, in order
    fnOutcome,      \* last deploy: result of deploy_functions
    fnChangelog,    \* last deploy: changelog rows the calling handler wrote
    \* ---- POST /database/create (api/database.rs) ----
    clusterDbs,     \* databases existing in the cluster (pg_database)
    registryDbs,    \* platform registry: <<platform, database name>> records
    crSteps,        \* last request: pipeline steps that ran, in order
    crOutcome,      \* last request: response
    crChangelog,    \* last request: changelog rows written to the new database
    crTasks,        \* concurrent create requests: position and result of each
    \* ---- POST /v2/migrate (api/migrate_v2.rs) ----
    gateDesired,    \* tables/ directory as parsed by parse_desired_schema
    gateLive,       \* live schema of the first database of the batch
    gateSql,        \* last request: statements and sub-deployers run, in order
    gateOutcome,    \* last request: response
    \* ---- PoolManager (pool/manager.rs) ----
    pmPools,        \* pools map: database name -> last_used of its entry
    pmTotal,        \* total_connections (AtomicU32), see u32 below
    pmClock,        \* the last reading Instant::now() returned
    pmProc,         \* per request task: position in get_pool_by_name
    pmCleaner,      \* the cleanup task: position in cleanup_idle_pools
    \* ---- SeederRunner (schema/seeder.rs), one database ----
    sdDisk,         \* seeders/ directory: file name -> parsed first INSERT
    sdRows,         \* per table: the rows it holds, in insertion order
    sdOutcome,      \* last run: result of run_seeders_on_register
    \* ---- SchemaVerifier (schema/verifier.rs), one call ----
    vfInput,        \* the schema directories and the database the call reads
    vfResult,       \* result of verify_schema
    \* ---- database names (pool/router.rs, api/database.rs) ----
    rtRequest,      \* request fields a database name is derived from
    rtName,         \* the derived database name
    \* ---- PoolManager::create_database (pool/manager.rs) ----
    ddCluster,      \* databases existing in the cluster (pg_database)
    ddStatements,   \* last call: the DDL statements formatted and sent
    ddResult,       \* last call: the name asked for and the Result
    \* ---- TypeChecker (schema/types.rs), one pair of types ----
    tyPair,         \* the two type names a column changes between
    tyForward,      \* check_compatibility(from, to)
    tyReverse,      \* check_compatibility(to, from)
    \* ---- artifact checksums (tables.rs, functions.rs, custom_types.rs,
    \*      migration.rs), one pair of file texts ----
    ckInput,        \* artifact kind and the two file texts
    ckSums          \* the checksums computed for the two texts

migVars  == <<migDisk, migApplied, migSucc, migRecFail, migPlan, migExec, migOutcome>>
tblVars  == <<tblDisk, tblDb, tblTracking, tblExec, tblOutcome>>
fnVars   == <<fnDisk, fnTracking, fnResident, fnLog, fnOutcome, fnChangelog>>
crVars   == <<clusterDbs, registryDbs, crSteps, crOutcome, crChangelog, crTasks>>
gateVars == <<gateDesired, gateLive, gateSql, gateOutcome>>
pmVars   == <<pmPools, pmTotal, pmClock, pmProc, pmCleaner>>
sdVars   == <<sdDisk, sdRows, sdOutcome>>
vfVars   == <<vfInput, vfResult>>
rtVars   == <<rtRequest, rtName>>
ddVars   == <<ddCluster, ddStatements, ddResult>>
tyVars   == <<tyPair, tyForward, tyReverse>>
ckVars   == <<ckInput, ckSums>>
moreVars == <<ddVars, tyVars, ckVars>>
restVars == <<sdVars, vfVars, rtVars, moreVars>>
otherVars == <<migVars, tblVars, fnVars, crVars, gateVars, restVars>>
vars     == <<migVars, tblVars, fnVars, crVars, gateVars, pmVars, restVars>>

(***************************************************************************)
(* Common helpers                                                          *)
(***************************************************************************)

Range(s) == {s[i] : i \in DOMAIN s}

\* Position of the first occurrence of x in s, 0 when absent
\* (Iterator::position).
IndexOf(s, x) ==
    IF \E i \in DOMAIN s : s[i] = x
    THEN CHOOSE i \in DOMAIN s : s[i] = x /\ \A j \in 1..(i - 1) : s[j] # x
    ELSE 0

\* Byte-wise order of the identifiers used in the model (String::cmp):
\* a name sorts before another iff it stands earlier in this list.
NameOrder ==
    <<"a", "b", "c", "fa.pssql", "fb.pssql",
      "m001.pssql", "m002.pssql", "m003.pssql",
      "sa.pssql", "sb.pssql", "x">>

NameRank(n) == IndexOf(NameOrder, n)

\* Vec::sort on a collection of distinct names: ascending sequence.
RECURSIVE SortNames(_)
SortNames(S) ==
    IF S = {} THEN <<>>
    ELSE LET m == CHOOSE x \in S : \A y \in S : NameRank(x) <= NameRank(y)
         IN  <<m>> \o SortNames(S \ {m})

Front(s) == SubSeq(s, 1, Len(s) - 1)

(***************************************************************************)
(* DependencyAnalyzer (schema/dependency.rs)                               *)
(*                                                                         *)
(* A parsed file is the list of its CREATE TABLE statements, each a        *)
(* TableInfo [name, depends_on]; depends_on is the de-duplicated set of    *)
(* tables referenced by the statement's foreign keys.                      *)
(***************************************************************************)

\* build_dependency_graph: table -> depends_on; a later statement for the
\* same table name replaces an earlier one (HashMap collect).
build_dependency_graph(tables) ==
    [n \in {tables[i].name : i \in DOMAIN tables} |->
        LET last == CHOOSE i \in DOMAIN tables :
                        /\ tables[i].name = n
                        /\ \A j \in DOMAIN tables : tables[j].name = n => j <= i
        IN  tables[last].depends_on]

\* The Kahn loop of topological_sort on the loop state st = [queue,
\* in_degree, result]: pop the LAST element of the sorted queue, emit it,
\* decrement its dependents, push those that reach zero and re-sort.  (The
\* next loop state is bound by a quantifier so that it is computed once.)
RECURSIVE topo_loop(_, _)
topo_loop(st, adj) ==
    IF st.queue = <<>> THEN st.result
    ELSE LET node   == st.queue[Len(st.queue)]
             deg2   == [n \in DOMAIN st.in_degree |->
                           IF n \in adj[node] THEN st.in_degree[n] - 1
                           ELSE st.in_degree[n]]
             pushed == {n \in adj[node] : deg2[n] = 0}
         IN  CHOOSE r \in
                 {topo_loop(s2, adj) :
                     s2 \in {[queue |-> SortNames(Range(Front(st.queue))
                                                  \cup pushed),
                              in_degree |-> deg2,
                              result |-> Append(st.result, node)]}} : TRUE

\* topological_sort: every table and every referenced name is a node; a
\* table's in-degree is the number of its dependencies.  Returns the order,
\* or an error when not every node could be emitted.
topological_sort(graph) ==
    LET all_nodes == DOMAIN graph \cup UNION {graph[n] : n \in DOMAIN graph}
        in_degree == [n \in all_nodes |->
                         IF n \in DOMAIN graph THEN Cardinality(graph[n]) ELSE 0]
        adj       == [d \in all_nodes |-> {n \in DOMAIN graph : d \in graph[n]}]
        queue     == SortNames({n \in all_nodes : in_degree[n] = 0})
    IN  CHOOSE r \in
            {IF Len(result) # Cardinality(all_nodes)
             THEN [ok |-> FALSE, order |-> <<>>]
             ELSE [ok |-> TRUE, order |-> result] :
                result \in {topo_loop(s0, a) :
                    s0 \in {[queue |-> queue, in_degree |-> in_degree,
                             result |-> <<>>]},
                    a \in {adj}}} : TRUE

\* analyze_sql: Err when topological_sort fails, else the analysis.
analyze_sql(tables) ==
    LET sorted == topological_sort(build_dependency_graph(tables))
    IN  [ok |-> sorted.ok, tables |-> tables, creation_order |-> sorted.order]

(***************************************************************************)
(* MigrationRunner (schema/migration.rs)                                   *)
(***************************************************************************)

\* Bound on the files of migrations/ : their names, in lexical order.
MigFileNames == <<"m001.pssql", "m002.pssql", "m003.pssql">>

\* Bound on the tables: the table file k may create, in the order of
\* MigFileNames.
MigTableList == <<"a", "b", "c">>

MigTables == Range(MigTableList)

\* Bound on how often one migration's batch may succeed, and how often its
\* tracking INSERT may fail, before the model stops running migrations.
MaxExec == 2

\* Contents a migration file may have: no CREATE TABLE, or one CREATE TABLE
\* of the file's table with foreign keys to any of the tables (itself
\* included).
MigContents(file) ==
    {<<>>} \cup
    {<<[name |-> MigTableList[IndexOf(MigFileNames, file)], depends_on |-> d]>> :
        d \in SUBSET MigTables}

NoMigOutcome == [kind |-> "none", error |-> "", failed |-> "", count |-> 0]

\* find_migration_files: the *.pssql files with their content, sorted by
\* file name.
find_migration_files(disk) ==
    LET names == SortNames(DOMAIN disk)
    IN  [i \in DOMAIN names |-> [name |-> names[i], content |-> disk[names[i]]]]

\* Sort a set of migration indices by file name (queue.sort_by(name)).
SortIdxByName(S, migrations) ==
    LET names == SortNames({migrations[i].name : i \in S})
    IN  [k \in DOMAIN names |->
            CHOOSE i \in S : migrations[i].name = names[k]]

\* The Kahn loop of order_by_dependencies on the loop state st = [queue,
\* in_degree, ordered]: queue.pop() takes the LAST index of the name-sorted
\* queue.
RECURSIVE mig_kahn_loop(_, _, _)
mig_kahn_loop(st, reverse_graph, migrations) ==
    IF st.queue = <<>> THEN st.ordered
    ELSE LET idx    == st.queue[Len(st.queue)]
             deg2   == [i \in DOMAIN st.in_degree |->
                           IF i \in reverse_graph[idx] THEN st.in_degree[i] - 1
                           ELSE st.in_degree[i]]
             pushed == {i \in reverse_graph[idx] : deg2[i] = 0}
         IN  CHOOSE r \in
                 {mig_kahn_loop(s2, reverse_graph, migrations) :
                     s2 \in {[queue |-> SortIdxByName(
                                            Range(Front(st.queue)) \cup pushed,
                                            migrations),
                              in_degree |-> deg2,
                              ordered |-> Append(st.ordered, idx)]}} : TRUE

\* The table-to-file map and the file graph built by order_by_dependencies
\* from the per-file analyses.  A file whose analysis fails contributes
\* neither tables nor dependencies; a later file overwrites an earlier one
\* in table_to_migration; a file never depends on itself.
migration_graph(migrations, analysis) ==
    LET idxs     == DOMAIN migrations
        defines  == [i \in idxs |->
                        IF analysis[i].ok
                        THEN {analysis[i].tables[k].name :
                                 k \in DOMAIN analysis[i].tables}
                        ELSE {}]
        migration_deps ==
                    [i \in idxs |->
                        IF analysis[i].ok
                        THEN UNION {analysis[i].tables[k].depends_on :
                                       k \in DOMAIN analysis[i].tables}
                        ELSE {}]
        defined  == UNION {defines[i] : i \in idxs}
        table_to_migration ==
                    [t \in defined |->
                        CHOOSE i \in idxs :
                            /\ t \in defines[i]
                            /\ \A j \in idxs : t \in defines[j] => j <= i]
    IN  [i \in idxs |->
            {table_to_migration[t] : t \in migration_deps[i] \cap defined} \ {i}]

\* order_by_dependencies: the execution order of the migration files, or
\* the circular-dependency error.
order_by_dependencies(migrations) ==
    IF migrations = <<>> THEN [ok |-> TRUE, order |-> <<>>]
    ELSE CHOOSE r \in
        {LET idxs      == DOMAIN migrations
             in_degree == [i \in idxs |-> Cardinality(graph[i])]
             reverse_graph == [d \in idxs |-> {i \in idxs : d \in graph[i]}]
             queue     == SortIdxByName({i \in idxs : in_degree[i] = 0},
                                        migrations)
             ordered_indices ==
                 mig_kahn_loop([queue |-> queue, in_degree |-> in_degree,
                                ordered |-> <<>>],
                               reverse_graph, migrations)
         IN  IF Len(ordered_indices) # Len(migrations)
             THEN [ok |-> FALSE, order |-> <<>>]
             ELSE [ok |-> TRUE,
                   order |-> [k \in DOMAIN ordered_indices |->
                                 migrations[ordered_indices[k]].name]] :
            graph \in {migration_graph(migrations,
                          [i \in DOMAIN migrations |->
                              analyze_sql(migrations[i].content)])}} : TRUE

\* The loop's `applied.contains(&migration.name)` test that always sends a
\* file, applied or not.
unapplied_without_skip(plan, applied) == plan

\* The files of the plan that the loop does not skip: those without a row
\* in the tracking table.
unapplied(plan, applied) ==
    SelectSeq(plan, LAMBDA n : n \notin Range(applied))

\* A loop that logs the error of a failed migration and goes on.
migrations_sent_continue(todo, k, kind) == todo

\* The files whose SQL is sent by the loop over `todo` when the k-th one
\* fails with `kind` (k = 0: none fails).  Every error returns at once.
migrations_sent(todo, k, kind) ==
    IF k = 0 THEN todo
    ELSE IF kind \in {"read", "connect"} THEN SubSeq(todo, 1, k - 1)
    ELSE SubSeq(todo, 1, k)

\* The files whose batch succeeded.
migrations_succeeded(todo, k, kind) ==
    IF k = 0 THEN todo
    ELSE IF kind = "record" THEN SubSeq(todo, 1, k)
    ELSE SubSeq(todo, 1, k - 1)

\* The files recorded in the tracking table by the run.
migrations_recorded(todo, k) ==
    IF k = 0 THEN todo ELSE SubSeq(todo, 1, k - 1)

MigInit ==
    /\ migDisk \in [Range(MigFileNames) ->
                        UNION {MigContents(n) : n \in Range(MigFileNames)}]
    /\ \A n \in Range(MigFileNames) : migDisk[n] \in MigContents(n)
    /\ migApplied = <<>>
    /\ migSucc = [n \in Range(MigFileNames) |-> 0]
    /\ migRecFail = [n \in Range(MigFileNames) |-> 0]
    /\ migPlan = <<>>
    /\ migExec = <<>>
    /\ migOutcome = NoMigOutcome

MigIdle ==
    /\ migDisk = [n \in Range(MigFileNames) |-> <<>>]
    /\ migApplied = <<>>
    /\ migSucc = [n \in Range(MigFileNames) |-> 0]
    /\ migRecFail = [n \in Range(MigFileNames) |-> 0]
    /\ migPlan = <<>>
    /\ migExec = <<>>
    /\ migOutcome = NoMigOutcome

\* run_migrations_ordered(auto_order = true), the whole call.  `setup`
\* fails when the tracking table cannot be ensured or read; otherwise the
\* k-th unapplied migration fails (k = 0: none) with
\*   read    : the file cannot be read
\*   connect : pool.get() fails before the batch is sent
\*   batch   : batch_execute fails
\*   record  : the batch succeeds, the tracking INSERT fails.
RunMigrations ==
    /\ \A n \in Range(MigFileNames) :
           migSucc[n] < MaxExec /\ migRecFail[n] < MaxExec
    /\ \E setup \in BOOLEAN,
          ordered \in {order_by_dependencies(find_migration_files(migDisk))} :
         \E todo \in {unapplied(ordered.order, migApplied)} :
             IF setup
             THEN /\ migOutcome' = [kind |-> "error", error |-> "MigrationFailed",
                                    failed |-> "", count |-> 0]
                  /\ migPlan' = <<>>
                  /\ migExec' = <<>>
                  /\ UNCHANGED <<migApplied, migSucc, migRecFail>>
             ELSE IF ~ordered.ok
             THEN /\ migOutcome' = [kind |-> "error",
                                    error |-> "SchemaExtractionFailed",
                                    failed |-> "", count |-> 0]
                  /\ migPlan' = <<>>
                  /\ migExec' = <<>>
                  /\ UNCHANGED <<migApplied, migSucc, migRecFail>>
             ELSE \E k \in 0..Len(todo), kind \in {"read", "connect", "batch", "record"} :
                  /\ k = 0 => kind = "batch"
                  /\ migPlan' = ordered.order
                  /\ migExec' = migrations_sent(todo, k, kind)
                  /\ migApplied' = migApplied \o migrations_recorded(todo, k)
                  /\ migSucc' = [n \in DOMAIN migSucc |->
                        IF n \in Range(migrations_succeeded(todo, k, kind))
                        THEN migSucc[n] + 1 ELSE migSucc[n]]
                  /\ migRecFail' = [n \in DOMAIN migRecFail |->
                        IF k > 0 /\ kind = "record" /\ n = todo[k]
                        THEN migRecFail[n] + 1 ELSE migRecFail[n]]
                  /\ migOutcome' =
                        IF k = 0
                        THEN [kind |-> "ok", error |-> "", failed |-> "",
                              count |-> Len(todo)]
                        ELSE [kind |-> "error",
                              error |-> IF kind = "connect"
                                        THEN "ConnectionFailed"
                                        ELSE "MigrationFailed",
                              failed |-> todo[k], count |-> 0]
    /\ UNCHANGED migDisk
    /\ UNCHANGED <<tblVars, fnVars, crVars, gateVars, pmVars, restVars>>

(***************************************************************************)
(* GatewayError -> HTTP status (error.rs)                                  *)
(***************************************************************************)

\* IntoResponse for GatewayError: the status code of each error variant
\* (0 stands for "no error response").
http_status(error) ==
    CASE error = "DatabaseNotFound"       -> 404
      [] error = "DatabaseAlreadyExists"  -> 409
      [] error = "MigrationFailed"        -> 500
      [] error = "FunctionDeployFailed"   -> 500
      [] error = "SchemaExtractionFailed" -> 400
      [] error = "QueryFailed"            -> 500
      [] error = "ExtensionInstallFailed" -> 500
      [] error = "ConnectionFailed"       -> 503
      [] error = "InvalidRequest"         -> 400
      [] error = "Internal"               -> 500
      [] OTHER                            -> 0

(***************************************************************************)
(* TableDeployer (schema/tables.rs)                                        *)
(***************************************************************************)

\* Bound on the table files of tables/ : each file <t>.pssql holds the
\* CREATE TABLE of table <t>.
TblNames == {"a", "b", "c"}

\* Bound on the tables a foreign key may reference: the tables of the set
\* and one table "x" that no file defines.
TblTargets == TblNames \cup {"x"}

NoTblOutcome ==
    [kind |-> "none", error |-> "", names |-> {}, failed |-> "", created |-> 0]

\* find_table_files: the table files, sorted by path.
find_table_files(disk) == SortNames(DOMAIN disk)

\* parse_table_definition: None (an empty sequence here) when analyze_sql
\* fails on the file, else the file's first table.
parse_table_definition(disk, file) ==
    LET analysis == analyze_sql(<<[name |-> file, depends_on |-> disk[file]]>>)
    IN  IF ~analysis.ok THEN <<>>
        ELSE <<[name |-> analysis.tables[1].name,
                depends_on |-> analysis.tables[1].depends_on]>>

\* The parse loop of deploy_tables: the definitions of the files that
\* parse, in file order.
RECURSIVE parse_table_files(_, _)
parse_table_files(disk, files) ==
    IF files = <<>> THEN <<>>
    ELSE parse_table_definition(disk, Head(files))
             \o parse_table_files(disk, Tail(files))

\* A dependency scan that finds no dependency at all.
no_dependency_indices(tables, idx) == {}

\* The indices table idx depends on: its depends_on names looked up in
\* name_to_idx (a later table of the same name wins), itself excluded;
\* names that no table of the set carries are external and ignored.
dependency_indices(tables, idx) ==
    {CHOOSE d \in DOMAIN tables :
            /\ tables[d].name = n
            /\ \A e \in DOMAIN tables : tables[e].name = n => e <= d :
        n \in {m \in tables[idx].depends_on :
                  \E d \in DOMAIN tables : tables[d].name = m}} \ {idx}

\* The Kahn loop of TableDeployer::order_by_dependencies on the loop state
\* st = [queue, in_degree, ordered]: queue.pop() takes the LAST index of
\* the name-sorted queue.
RECURSIVE tbl_kahn_loop(_, _, _)
tbl_kahn_loop(st, dependents, tables) ==
    IF st.queue = <<>> THEN st.ordered
    ELSE LET idx    == st.queue[Len(st.queue)]
             deg2   == [i \in DOMAIN st.in_degree |->
                           IF i \in dependents[idx] THEN st.in_degree[i] - 1
                           ELSE st.in_degree[i]]
             pushed == {i \in dependents[idx] : deg2[i] = 0}
         IN  CHOOSE r \in
                 {tbl_kahn_loop(s2, dependents, tables) :
                     s2 \in {[queue |-> SortIdxByName(
                                            Range(Front(st.queue)) \cup pushed,
                                            tables),
                              in_degree |-> deg2,
                              ordered |-> Append(st.ordered, idx)]}} : TRUE

\* TableDeployer::order_by_dependencies: the creation order, or the
\* circular-dependency error with the names of all tables left unordered.
tbl_order_by_dependencies(tables) ==
    IF tables = <<>> THEN [ok |-> TRUE, order |-> <<>>, remaining |-> {}]
    ELSE CHOOSE r \in
        {LET idxs       == DOMAIN tables
             in_degree  == [i \in idxs |-> Cardinality(deps[i])]
             dependents == [d \in idxs |-> {i \in idxs : d \in deps[i]}]
             queue      == SortIdxByName({i \in idxs : in_degree[i] = 0}, tables)
             ordered_indices ==
                 tbl_kahn_loop([queue |-> queue, in_degree |-> in_degree,
                                ordered |-> <<>>], dependents, tables)
         IN  IF Len(ordered_indices) # Len(tables)
             THEN [ok |-> FALSE, order |-> <<>>,
                   remaining |-> {tables[i].name :
                                     i \in idxs \ Range(ordered_indices)}]
             ELSE [ok |-> TRUE,
                   order |-> [k \in DOMAIN ordered_indices |->
                                 tables[ordered_indices[k]].name],
                   remaining |-> {}] :
            deps \in {[i \in DOMAIN tables |-> dependency_indices(tables, i)]}}
        : TRUE

TblInit ==
    /\ tblDisk \in UNION {[S -> SUBSET TblTargets] : S \in SUBSET TblNames}
    /\ tblDb = {}
    /\ tblTracking = {}
    /\ tblExec = <<>>
    /\ tblOutcome = NoTblOutcome

\* deploy_tables, the whole call.  `fail` picks the step outside the
\* creation loop that fails, if any:
\*   tracking : ensure_tracking_table fails (before the files are read)
\*   connect  : pool.get() fails (after the tables are ordered);
\* in the loop the k-th table still to be created fails its batch
\* (k = 0: none).  update_tracking's INSERT is taken to succeed.
DeployTables ==
    /\ \E fail \in {"none", "tracking", "connect"},
          ordered \in {tbl_order_by_dependencies(
                          parse_table_files(tblDisk, find_table_files(tblDisk)))} :
         \E todo \in {SelectSeq(ordered.order, LAMBDA t : t \notin tblDb)} :
            IF fail = "tracking"
            THEN /\ tblOutcome' = [NoTblOutcome EXCEPT !.kind = "error",
                                                       !.error = "MigrationFailed"]
                 /\ tblExec' = <<>>
                 /\ UNCHANGED <<tblDb, tblTracking>>
            ELSE IF ~ordered.ok
            THEN /\ tblOutcome' = [NoTblOutcome EXCEPT
                                      !.kind = "error",
                                      !.error = "SchemaExtractionFailed",
                                      !.names = ordered.remaining]
                 /\ tblExec' = <<>>
                 /\ UNCHANGED <<tblDb, tblTracking>>
            ELSE IF fail = "connect" /\ ordered.order # <<>>
            THEN /\ tblOutcome' = [NoTblOutcome EXCEPT !.kind = "error",
                                                       !.error = "ConnectionFailed"]
                 /\ tblExec' = <<>>
                 /\ UNCHANGED <<tblDb, tblTracking>>
            ELSE \E k \in 0..Len(todo) :
                 LET sent    == IF k = 0 THEN todo ELSE SubSeq(todo, 1, k)
                     created == IF k = 0 THEN todo ELSE SubSeq(todo, 1, k - 1)
                     visited == IF k = 0 THEN ordered.order
                                ELSE SubSeq(ordered.order, 1,
                                            IndexOf(ordered.order, todo[k]) - 1)
                 IN  /\ tblExec' = sent
                     /\ tblDb' = tblDb \cup Range(created)
                     /\ tblTracking' = tblTracking \cup Range(visited)
                     /\ tblOutcome' =
                           IF k = 0
                           THEN [NoTblOutcome EXCEPT !.kind = "ok",
                                                     !.created = Len(created)]
                           ELSE [NoTblOutcome EXCEPT !.kind = "error",
                                                     !.error = "MigrationFailed",
                                                     !.failed = todo[k]]
    /\ UNCHANGED tblDisk
    /\ UNCHANGED <<migVars, fnVars, crVars, gateVars, pmVars, restVars>>

(***************************************************************************)
(* FunctionDeployer (schema/functions.rs)                                  *)
(*                                                                         *)
(* A function file is the text CREATE OR REPLACE FUNCTION name(params),    *)
(* kept as [name, params]; a parameter is [mode, pname, type] with ""      *)
(* for an absent mode or name, and a type is the sequence of its words.    *)
(* A string built by join(" ") is kept as the sequence of its words.       *)
(***************************************************************************)

\* Bound on the function files: fa.pssql is edited between deployments,
\* fb.pssql keeps its content.
FnFiles == {"fa.pssql", "fb.pssql"}

\* Bound on the parameter types written in the files.
FnTypes == {<<"INT">>, <<"CHARACTER", "VARYING">>}

\* Bound on the parameters written in the files: a type, optionally
\* preceded by a name, optionally preceded by the mode IN.
FnParams ==
    {x \in [mode : {"", "IN"}, pname : {"", "p", "q"}, type : FnTypes] :
        x.mode = "IN" => x.pname # "q"}

\* Bound on the parameter lists: none, one parameter, or the parameter
\* p INT followed by a second parameter named q.
FnParamLists ==
    {<<>>} \cup {<<x>> : x \in FnParams}
           \cup {<<[mode |-> "", pname |-> "p", type |-> <<"INT">>], y>> :
                    y \in {x \in FnParams : x.mode = "" /\ x.pname = "q"}}

\* Function names written with a schema prefix.  The regex of
\* parse_signature wants "(" right after the first word that follows
\* FUNCTION, so it does not match a file that declares such a name.
FnQualifiedNames == {"public.k"}

\* Bound on the contents of fa.pssql: function f with any of the parameter
\* lists, function g with no parameter or with p INT, or the
\* schema-qualified function public.k without parameters.
FnContents ==
    [name : {"f"}, params : FnParamLists]
    \cup [name : {"g"},
          params : {<<>>, <<[mode |-> "", pname |-> "p", type |-> <<"INT">>]>>}]
    \cup [name : FnQualifiedNames, params : {<<>>}]

\* The content of fb.pssql.
FnFixedContent ==
    [name |-> "h",
     params |-> <<[mode |-> "", pname |-> "p", type |-> <<"INT">>]>>]

NoFnOutcome == [kind |-> "none", error |-> "", failed |-> "", deployed |-> 0]

\* str::to_uppercase on the words that occur in parameter texts.
to_uppercase(w) ==
    CASE w = "p" -> "P"
      [] w = "q" -> "Q"
      [] OTHER   -> w

\* str::to_lowercase on the words that occur in parameter texts.
to_lowercase(w) ==
    CASE w = "INT"       -> "int"
      [] w = "CHARACTER" -> "character"
      [] w = "VARYING"   -> "varying"
      [] w = "IN"        -> "in"
      [] OTHER           -> w

\* The text of one parameter as written in the file, split at whitespace
\* (param_clean.split_whitespace()).
param_words(param) ==
    (IF param.mode = "" THEN <<>> ELSE <<param.mode>>)
        \o (IF param.pname = "" THEN <<>> ELSE <<param.pname>>)
        \o param.type

\* parse_single_parameter on the words of a parameter: "type", "name type",
\* "MODE name type" or "MODE type"; name "" stands for None.
parse_single_parameter(parts) ==
    LET upper(ws) == [i \in DOMAIN ws |-> to_uppercase(ws[i])]
    IN  IF Len(parts) = 1
        THEN [name |-> "", data_type |-> upper(parts)]
        ELSE IF to_uppercase(parts[1]) \in {"IN", "OUT", "INOUT"}
        THEN IF Len(parts) >= 3
             THEN [name |-> to_lowercase(parts[2]),
                   data_type |-> upper(SubSeq(parts, 3, Len(parts)))]
             ELSE [name |-> "",
                   data_type |-> upper(SubSeq(parts, 2, Len(parts)))]
        ELSE [name |-> to_lowercase(parts[1]),
              data_type |-> upper(SubSeq(parts, 2, Len(parts)))]

\* The None of Option<FunctionSignature>.
NoSignature == [name |-> "", parameters |-> <<>>, body_checksum |-> <<>>]

\* parse_signature: None when the regex does not match; otherwise the
\* function name and the parsed parameters.  The body checksum is the hash
\* of the whole normalised text, kept as the content.
parse_signature(content) ==
    IF content.name \in FnQualifiedNames THEN NoSignature
    ELSE
    [name |-> to_lowercase(content.name),
     parameters |-> [i \in DOMAIN content.params |->
                        parse_single_parameter(param_words(content.params[i]))],
     body_checksum |-> content]

\* The param_types vector built from a signature.
param_types(signature) ==
    [i \in DOMAIN signature.parameters |-> signature.parameters[i].data_type]

\* Vec<String>::join(", ") on vectors of word sequences.
RECURSIVE join_comma(_)
join_comma(types) ==
    IF types = <<>> THEN <<>>
    ELSE IF Len(types) = 1 THEN types[1]
    ELSE types[1] \o <<",">> \o join_comma(Tail(types))

\* FunctionSignature::drop_signature: name, or name(type, type).
drop_signature(signature) ==
    IF param_types(signature) = <<>> THEN <<signature.name>>
    ELSE <<signature.name, "(">> \o join_comma(param_types(signature)) \o <<")">>

\* check_needs_deploy answering true whatever the tracking table holds.
check_needs_deploy_always(tracking, signature) == TRUE

\* check_needs_deploy: deploy unless a row with this name and these
\* parameter types carries the same checksum.
check_needs_deploy(tracking, signature) ==
    LET rows == {r \in tracking :
                    /\ r.function_name = signature.name
                    /\ r.param_types = param_types(signature)}
    IN  \A r \in rows : r.body_checksum # signature.body_checksum

\* handle_signature_change finding no old row of the source file.
signature_changed_rows_none(tracking, new_signature, file_name) == {}

\* handle_signature_change: the tracked rows of this source file whose
\* name or parameter types differ from the new signature.
signature_changed_rows(tracking, new_signature, file_name) ==
    {r \in tracking :
        /\ r.source_file = file_name
        /\ (r.function_name # new_signature.name
            \/ r.param_types # param_types(new_signature))}

\* update_tracking: INSERT .. ON CONFLICT (function_name, param_types) DO
\* UPDATE.
update_tracking(tracking, signature, file_name) ==
    {r \in tracking :
        ~(r.function_name = signature.name
          /\ r.param_types = param_types(signature))}
    \cup {[function_name |-> signature.name,
           param_types   |-> param_types(signature),
           body_checksum |-> signature.body_checksum,
           source_file   |-> file_name]}

\* The function a file's CREATE OR REPLACE FUNCTION creates or replaces in
\* the database: PostgreSQL identifies it by its name and the types of its
\* input parameters.
pg_identity(content) ==
    [name |-> to_lowercase(content.name),
     types |-> [i \in DOMAIN content.params |-> content.params[i].type]]

\* Effect of DROP FUNCTION IF EXISTS old_name(old_param_types) on the
\* resident functions: the function of that name and those argument types
\* is removed; when an argument names no type, the statement is skipped
\* with a notice.
pg_drop_function_if_exists(resident, old_name, old_param_types) ==
    IF \A i \in DOMAIN old_param_types : old_param_types[i] \in FnTypes
    THEN resident \ {[name |-> old_name, types |-> old_param_types]}
    ELSE resident

\* A set of tracking rows in the order the query returns them.
RECURSIVE rows_in_order(_)
rows_in_order(rows) ==
    IF rows = {} THEN <<>>
    ELSE LET r == CHOOSE x \in rows : TRUE
         IN  <<r>> \o rows_in_order(rows \ {r})

\* The statements handle_signature_change sends for the old rows: for each
\* row the DROP FUNCTION IF EXISTS, then the DELETE of the row.
RECURSIVE drop_statements(_, _)
drop_statements(old_rows, file_name) ==
    IF old_rows = <<>> THEN <<>>
    ELSE <<[op |-> "drop", file |-> file_name,
            name |-> old_rows[1].function_name,
            types |-> old_rows[1].param_types],
           [op |-> "delete", file |-> file_name,
            name |-> old_rows[1].function_name,
            types |-> old_rows[1].param_types]>>
         \o drop_statements(Tail(old_rows), file_name)

\* The resident functions after the DROPs of handle_signature_change.
RECURSIVE drop_all(_, _)
drop_all(resident, old_rows) ==
    IF old_rows = <<>> THEN resident
    ELSE drop_all(pg_drop_function_if_exists(resident,
                      old_rows[1].function_name, old_rows[1].param_types),
                  Tail(old_rows))

\* One iteration of the loop of deploy_functions, on the loop state
\* st = [tracking, resident, log, error]; `fail` names the statement of
\* this iteration that fails ("none", "read", "drop" or "batch").  The
\* statements on the tracking table whose errors the code discards
\* (DELETE, INSERT .. ON CONFLICT) are taken to succeed.
deploy_function_file(st, file_name, content, fail) ==
    LET signature == parse_signature(content)
        old_rows  == rows_in_order(
                         signature_changed_rows(st.tracking, signature, file_name))
        executed  == [op |-> "exec", file |-> file_name,
                      name |-> signature.name, types |-> param_types(signature)]
    IN  IF fail = "read"
        THEN [st EXCEPT !.error = "FunctionDeployFailed", !.failed = file_name]
        ELSE IF signature = NoSignature
        THEN \* "deploying without tracking"
             IF fail = "batch"
             THEN [st EXCEPT !.error = "FunctionDeployFailed",
                             !.failed = file_name,
                             !.log = Append(@, [executed EXCEPT
                                                   !.op = "exec_failed"])]
             ELSE [st EXCEPT !.resident = @ \cup {pg_identity(content)},
                             !.log = Append(@, executed)]
        ELSE IF ~check_needs_deploy(st.tracking, signature)
        THEN st
        ELSE IF fail = "drop" /\ old_rows # <<>>
        THEN [st EXCEPT !.error = "FunctionDeployFailed", !.failed = file_name,
                        !.log = Append(@, [op |-> "drop_failed", file |-> file_name,
                                           name |-> old_rows[1].function_name,
                                           types |-> old_rows[1].param_types])]
        ELSE IF fail = "batch"
        THEN [st EXCEPT !.error = "FunctionDeployFailed", !.failed = file_name,
                        !.tracking = @ \ Range(old_rows),
                        !.resident = drop_all(@, old_rows),
                        !.log = @ \o drop_statements(old_rows, file_name)
                                  \o <<[executed EXCEPT !.op = "exec_failed"]>>]
        ELSE [st EXCEPT !.tracking = update_tracking(@ \ Range(old_rows),
                                                     signature, file_name),
                        !.resident = drop_all(@, old_rows)
                                         \cup {pg_identity(content)},
                        !.log = @ \o drop_statements(old_rows, file_name)
                                  \o <<executed>>]

\* The loop of deploy_functions over the sorted files; it returns at the
\* first error.
RECURSIVE deploy_function_files(_, _, _, _, _)
deploy_function_files(st, files, disk, fail_file, fail) ==
    IF files = <<>> \/ st.error # "" THEN st
    ELSE CHOOSE r \in
        {deploy_function_files(s2, Tail(files), disk, fail_file, fail) :
            s2 \in {deploy_function_file(st, Head(files), disk[Head(files)],
                        IF Head(files) = fail_file THEN fail ELSE "none")}}
        : TRUE

FnInit ==
    /\ fnDisk \in [FnFiles -> FnContents \cup {FnFixedContent}]
    /\ fnDisk["fa.pssql"] \in FnContents
    /\ fnDisk["fb.pssql"] = FnFixedContent
    /\ fnTracking = {}
    /\ fnResident = {}
    /\ fnLog = <<>>
    /\ fnOutcome = NoFnOutcome
    /\ fnChangelog = <<>>

\* format!("{} functions", functions) for the counts of the model.
functions_text(n) == IF n = 1 THEN "1 functions" ELSE "2 functions"

\* ChangelogManager::log_function_dropped: the row it inserts.
log_function_dropped(function_name, old_signature) ==
    [change_type |-> "function_dropped", object_name |-> function_name,
     signature |-> old_signature]

\* ChangelogManager::log_function_deployed: the row it inserts.
log_function_deployed(function_name, signature) ==
    [change_type |-> "function_deployed", object_name |-> function_name,
     signature |-> signature]

\* The changelog rows the migrate and create handlers write for a
\* deploy_functions call: none when the call failed (the handler returns
\* first) or deployed nothing, else one summary row.
function_changelog(outcome) ==
    IF outcome.kind = "ok" /\ outcome.deployed > 0
    THEN <<log_function_deployed(functions_text(outcome.deployed), "batch")>>
    ELSE <<>>

\* deploy_functions, the whole call, on the functions/ directory as it is
\* at the time of the call: fa.pssql holds `content`.  With fail = "setup"
\* the tracking table cannot be ensured or no connection is obtained;
\* otherwise the statement `fail` of file `fail_file` fails, if it is sent.
\* The changelog rows are those the handler writes after the call.
DeployFunctions ==
    /\ \E content \in FnContents, fail_file \in FnFiles,
          fail \in {"none", "setup", "read", "drop", "batch"} :
       /\ fail \in {"none", "setup", "drop"} => fail_file = "fa.pssql"
       /\ fnDisk' = [fnDisk EXCEPT !["fa.pssql"] = content]
       /\ IF fail = "setup"
           THEN /\ fnOutcome' = [NoFnOutcome EXCEPT !.kind = "error",
                                                    !.error = "FunctionDeployFailed"]
                /\ fnLog' = <<>>
                /\ UNCHANGED <<fnTracking, fnResident>>
           ELSE \E st \in {deploy_function_files(
                              [tracking |-> fnTracking, resident |-> fnResident,
                               log |-> <<>>, error |-> "", failed |-> ""],
                              SortNames(DOMAIN fnDisk),
                              [fnDisk EXCEPT !["fa.pssql"] = content],
                              fail_file, fail)} :
                /\ fnTracking' = st.tracking
                /\ fnResident' = st.resident
                /\ fnLog' = st.log
                /\ fnOutcome' =
                      IF st.error = ""
                      THEN [NoFnOutcome EXCEPT
                               !.kind = "ok",
                               !.deployed = Cardinality(
                                   {i \in DOMAIN st.log : st.log[i].op = "exec"})]
                      ELSE [NoFnOutcome EXCEPT !.kind = "error",
                                               !.error = st.error,
                                               !.failed = st.failed]
    /\ fnChangelog' = function_changelog(fnOutcome')
    /\ UNCHANGED <<migVars, tblVars, crVars, gateVars, pmVars, restVars>>

(***************************************************************************)
(* POST /database/create (api/database.rs, pool/manager.rs, registry/)     *)
(*                                                                         *)
(* Names are kept as sequences of one-character strings so that the        *)
(* database name can be formatted and validated as the code does it.       *)
(***************************************************************************)

\* Platforms that have a platform.json (PlatformRegistry::is_registered).
RegisteredPlatforms == {<<"p">>, <<"P">>, <<"p", "_", "s">>}

\* Schema directories present in the schema store (SchemaStore::schema_exists).
StoredSchemas ==
    { <<<<"p">>, <<"s">>>>, <<<<"P">>, <<"s">>>>,
      <<<<"p">>, <<"s", "_", "t">>>>, <<<<"p", "_", "s">>, <<"t">>>> }

\* Request fields of CreateDatabaseRequest.
CrPlatforms == RegisteredPlatforms \cup {<<"q">>}

CrSchemaNames == {<<"s">>, <<"t">>, <<"s", "_", "t">>}

CrDatabaseIds == {<<"1">>, <<"2">>, <<"x", "-", "1">>}

\* Mutation of CrPipeline: the tables are deployed before the custom types.
CrPipelineTablesFirst ==
    << "database_exists", "create_database", "get_pool_by_name",
       "ensure_changelog_table", "install_extensions", "deploy_tables",
       "deploy_types", "deploy_functions", "run_seeders_on_register",
       "record_database" >>

\* The fallible steps of the handler, in the order the handler takes them.
CrPipeline ==
    << "database_exists", "create_database", "get_pool_by_name",
       "ensure_changelog_table", "install_extensions", "deploy_types",
       "deploy_tables", "deploy_functions", "run_seeders_on_register",
       "record_database" >>

\* The error variant a step returns when it fails.
CrStepError(step) ==
    CASE step = "database_exists"         -> "ConnectionFailed"
      [] step = "create_database"         -> "Internal"
      [] step = "get_pool_by_name"        -> "ConnectionFailed"
      [] step = "ensure_changelog_table"  -> "MigrationFailed"
      [] step = "install_extensions"      -> "ExtensionInstallFailed"
      [] step = "deploy_types"            -> "MigrationFailed"
      [] step = "deploy_tables"           -> "MigrationFailed"
      [] step = "deploy_functions"        -> "FunctionDeployFailed"
      [] step = "run_seeders_on_register" -> "QueryFailed"
      [] OTHER                            -> "Internal"

NoCrOutcome == [status |-> 0, error |-> "", database |-> <<>>, failed |-> ""]

AsciiLowercase ==
    { "a", "b", "c", "d", "e", "f", "g", "h", "i", "j", "k", "l", "m",
      "n", "o", "p", "q", "r", "s", "t", "u", "v", "w", "x", "y", "z" }

AsciiDigit == {"0", "1", "2", "3", "4", "5", "6", "7", "8", "9"}

\* Mutation of is_valid_identifier: every name passes.
any_identifier(name) == TRUE

\* pool::manager::is_valid_identifier
is_valid_identifier(name) ==
    /\ ~(Len(name) = 0 \/ Len(name) > 63)
    /\ (name[1] \in AsciiLowercase \/ name[1] = "_")
    /\ \A i \in DOMAIN name :
          name[i] \in AsciiLowercase \cup AsciiDigit \cup {"_"}

\* format!("{}_{}_{}", request.platform, request.schema_name,
\* request.database_id)
db_name_of(platform, schema_name, database_id) ==
    platform \o <<"_">> \o schema_name \o <<"_">> \o database_id

\* What a changelog write leaves in the table when it always fails.
log_change_lost(rows, fail) == <<>>

\* The changelog writes at the end of the handler (one summary row per kind
\* of artifact, for a schema that has an extension, a table, a function and
\* a seeded record).  Every write's error is discarded (.ok()): when the
\* changelog cannot be written the rows are missing and nothing else
\* changes.
log_change(rows, fail) == IF fail = "log_change" THEN <<>> ELSE rows

CrChangelogRows ==
    <<"extension_installed", "migration_applied", "function_deployed",
      "seeder_run">>

\* The handler's steps from database_exists on: step i of CrPipeline, with
\* the steps before it done.  fail names the step that fails ("none": no
\* step fails).  CREATE DATABASE adds the database to the cluster; the
\* deployment steps work inside the new database; record_database adds the
\* database to the platform registry.  No step removes the database.
RECURSIVE create_pipeline(_, _, _, _)
create_pipeline(st, db_name, i, fail) ==
    IF i > Len(CrPipeline)
    THEN [st EXCEPT !.outcome =
             [status |-> 201, error |-> "", database |-> db_name,
              failed |-> ""],
                    !.changelog = log_change(CrChangelogRows, fail)]
    ELSE
      LET step == CrPipeline[i]
          err(e) == [st EXCEPT !.outcome =
                        [status |-> http_status(e), error |-> e,
                         database |-> db_name, failed |-> step]]
      IN  IF fail = step THEN err(CrStepError(step))
          ELSE IF step = "database_exists" /\ db_name \in st.cluster
          THEN [st EXCEPT !.outcome =
                   [status |-> http_status("DatabaseAlreadyExists"),
                    error |-> "DatabaseAlreadyExists",
                    database |-> db_name, failed |-> step]]
          ELSE IF step = "create_database" /\ ~is_valid_identifier(db_name)
          THEN err("InvalidRequest")
          ELSE
            LET done == [st EXCEPT !.steps = Append(@, step)]
                next ==
                  CASE step = "create_database" ->
                         [done EXCEPT !.cluster = @ \cup {db_name}]
                    [] step = "record_database" ->
                         [done EXCEPT !.registry =
                                         @ \cup {<<st.platform, db_name>>}]
                    [] OTHER -> done
            IN  CHOOSE r \in {create_pipeline(s2, db_name, i + 1, fail) :
                                s2 \in {next}} : TRUE

\* api::database::create_database
create_database(cluster, registry, platform, schema_name, database_id, fail) ==
    LET st == [cluster |-> cluster, registry |-> registry,
               platform |-> platform, steps |-> <<>>, changelog |-> <<>>,
               outcome |-> NoCrOutcome]
        invalid(step) ==
            [st EXCEPT !.outcome =
                [status |-> http_status("InvalidRequest"),
                 error |-> "InvalidRequest", database |-> <<>>,
                 failed |-> step]]
    IN  IF platform \notin RegisteredPlatforms
        THEN invalid("is_registered")
        ELSE IF <<platform, schema_name>> \notin StoredSchemas
        THEN invalid("schema_exists")
        ELSE create_pipeline(st,
                 db_name_of(platform, schema_name, database_id), 1, fail)

\* Request tasks that serve POST /database/create at the same time, each
\* one request, and the database names they ask for.
CrTaskIds == {"t1", "t2", "t3"}

CrRaceRequests ==
    { [platform |-> <<"p">>, schema_name |-> <<"s">>, database_id |-> <<"1">>],
      [platform |-> <<"p">>, schema_name |-> <<"s", "_", "t">>,
       database_id |-> <<"1">>],
      [platform |-> <<"p", "_", "s">>, schema_name |-> <<"t">>,
       database_id |-> <<"1">>] }

CrRaceNames ==
    { db_name_of(req.platform, req.schema_name, req.database_id) :
        req \in CrRaceRequests }

\* A task that has not received its request.  existed: the database was in
\* the cluster when the request arrived.
\* info: the databases of platform.json as record_database read them.
NoCrTask == [pc |-> "idle", platform |-> <<>>, db |-> <<>>,
             existed |-> FALSE, steps |-> <<>>, info |-> {},
             outcome |-> NoCrOutcome]

CrInit ==
    /\ clusterDbs = {}
    /\ registryDbs = {}
    /\ crSteps = <<>>
    /\ crOutcome = NoCrOutcome
    /\ crChangelog = <<>>
    /\ crTasks = [t \in CrTaskIds |-> NoCrTask]

\* One POST /database/create request, start to response.
CreateDatabase ==
    \E platform \in CrPlatforms, schema_name \in CrSchemaNames,
       database_id \in CrDatabaseIds,
       fail \in {"none", "log_change"} \cup Range(CrPipeline) :
      \E r \in {create_database(clusterDbs, registryDbs, platform,
                                schema_name, database_id, fail)} :
        /\ clusterDbs' = r.cluster
        /\ registryDbs' = r.registry
        /\ crSteps' = r.steps
        /\ crOutcome' = r.outcome
        /\ crChangelog' = r.changelog
        /\ UNCHANGED <<crTasks, migVars, tblVars, fnVars, gateVars, pmVars, restVars>>

\* The same handler run by concurrent tasks: a step for every statement
\* that reads or changes the cluster.  The requests name a registered
\* platform and a stored schema.

\* What the steps of one task leave unchanged.
CrTaskFrame == UNCHANGED <<crSteps, crOutcome, crChangelog, migVars, tblVars, fnVars,
                           gateVars, pmVars, restVars>>

CrTaskError(t, e, step) ==
    [crTasks EXCEPT ![t].pc = "done",
                    ![t].outcome = [status |-> http_status(e), error |-> e,
                                    database |-> crTasks[t].db,
                                    failed |-> step]]

\* The request arrives and the database name is formatted.
ReceiveCreate(t) ==
    /\ crTasks[t].pc = "idle"
    /\ \E req \in CrRaceRequests :
        \E db_name \in {db_name_of(req.platform, req.schema_name,
                                   req.database_id)} :
          crTasks' = [crTasks EXCEPT ![t].pc = "database_exists",
                                     ![t].platform = req.platform,
                                     ![t].db = db_name,
                                     ![t].existed = db_name \in clusterDbs]
    /\ UNCHANGED <<clusterDbs, registryDbs>>
    /\ CrTaskFrame

\* api::database::create_database: `if database_exists(&db_name)`.
CheckDatabaseExists(t) ==
    /\ crTasks[t].pc = "database_exists"
    /\ crTasks' = IF crTasks[t].db \in clusterDbs
                  THEN CrTaskError(t, "DatabaseAlreadyExists",
                                   "database_exists")
                  ELSE [crTasks EXCEPT ![t].pc = "create_database"]
    /\ UNCHANGED <<clusterDbs, registryDbs>>
    /\ CrTaskFrame

\* PoolManager::create_database: the database is looked up again; when it
\* exists by now the method returns Ok(()) and the handler goes on.
RecheckDatabaseExists(t) ==
    /\ crTasks[t].pc = "create_database"
    /\ crTasks' = [crTasks EXCEPT ![t].pc = IF crTasks[t].db \in clusterDbs
                                            THEN "deploy"
                                            ELSE "create_sql"]
    /\ UNCHANGED <<clusterDbs, registryDbs>>
    /\ CrTaskFrame

\* PoolManager::create_database: CREATE DATABASE.  PostgreSQL rejects the
\* statement when the database exists; the statement can also fail for
\* another reason.
CreateDatabaseSql(t) ==
    /\ crTasks[t].pc = "create_sql"
    /\ \/ /\ crTasks[t].db \notin clusterDbs
          /\ is_valid_identifier(crTasks[t].db)
          /\ clusterDbs' = clusterDbs \cup {crTasks[t].db}
          /\ crTasks' = [crTasks EXCEPT
                            ![t].pc = "deploy",
                            ![t].steps = Append(@, "create_database")]
       \/ /\ clusterDbs' = clusterDbs
          /\ crTasks' = CrTaskError(t, "Internal", "create_database")
    /\ UNCHANGED registryDbs
    /\ CrTaskFrame

\* The handler from get_pool_by_name to run_seeders_on_register: a step
\* fails and the handler responds, or the handler reaches record_database.
DeployCreated(t) ==
    /\ crTasks[t].pc = "deploy"
    /\ \E fail \in {"none", "get_pool_by_name", "deploy_tables"} :
        \E r \in {create_pipeline([cluster |-> clusterDbs,
                                   registry |-> registryDbs,
                                   platform |-> crTasks[t].platform,
                                   steps |-> crTasks[t].steps,
                                   changelog |-> <<>>,
                                   outcome |-> NoCrOutcome],
                                  crTasks[t].db, 3,
                                  IF fail = "none" THEN "record_database"
                                  ELSE fail)} :
          crTasks' = IF fail = "none"
                     THEN [crTasks EXCEPT ![t].pc = "get_platform_info",
                                          ![t].steps = r.steps]
                     ELSE [crTasks EXCEPT ![t].pc = "done",
                                          ![t].steps = r.steps,
                                          ![t].outcome = r.outcome]
    /\ UNCHANGED <<clusterDbs, registryDbs>>
    /\ CrTaskFrame

\* The databases platform.json of a platform lists.
platform_databases(registry, platform) ==
    {rec[2] : rec \in {x \in registry : x[1] = platform}}

\* PlatformRegistry::record_database, first half: get_platform_info reads
\* and parses platform.json into a value of the task.
RecordReadInfo(t) ==
    /\ crTasks[t].pc = "get_platform_info"
    /\ \/ crTasks' = [crTasks EXCEPT
                         ![t].pc = "save_platform_info",
                         ![t].info = platform_databases(registryDbs,
                                                        crTasks[t].platform)]
       \/ crTasks' = CrTaskError(t, "Internal", "record_database")
    /\ UNCHANGED <<clusterDbs, registryDbs>>
    /\ CrTaskFrame

\* PlatformRegistry::record_database, second half: the record is inserted
\* into the value read and save_platform_info overwrites platform.json with
\* it; the handler then responds 201.
RecordSaveInfo(t) ==
    /\ crTasks[t].pc = "save_platform_info"
    /\ \/ /\ registryDbs' =
                {x \in registryDbs : x[1] # crTasks[t].platform}
                \cup {<<crTasks[t].platform, d>> :
                        d \in crTasks[t].info \cup {crTasks[t].db}}
          /\ crTasks' = [crTasks EXCEPT
                            ![t].pc = "done",
                            ![t].steps = Append(@, "record_database"),
                            ![t].outcome =
                                [status |-> 201, error |-> "",
                                 database |-> crTasks[t].db, failed |-> ""]]
       \/ /\ registryDbs' = registryDbs
          /\ crTasks' = CrTaskError(t, "Internal", "record_database")
    /\ UNCHANGED clusterDbs
    /\ CrTaskFrame

(***************************************************************************)
(* TypeChecker (schema/types.rs)                                           *)
(***************************************************************************)

\* Type names as written in table files, and as information_schema
\* reports them (upper-cased by query_current_schema).
DesiredTypes == {"INT4", "bigint", "TEXT"}

LiveTypes == {"INTEGER", "BIGINT", "TEXT"}

\* The character at position i of a string, as a string.
char_at(s, i) == SubSeq(s, i, i)

\* char::to_uppercase on the letters that occur in type names.
upper_char(c) ==
    CASE c = "a" -> "A" [] c = "b" -> "B" [] c = "c" -> "C" [] c = "d" -> "D"
      [] c = "e" -> "E" [] c = "f" -> "F" [] c = "g" -> "G" [] c = "h" -> "H"
      [] c = "i" -> "I" [] c = "j" -> "J" [] c = "k" -> "K" [] c = "l" -> "L"
      [] c = "m" -> "M" [] c = "n" -> "N" [] c = "o" -> "O" [] c = "p" -> "P"
      [] c = "q" -> "Q" [] c = "r" -> "R" [] c = "s" -> "S" [] c = "t" -> "T"
      [] c = "u" -> "U" [] c = "v" -> "V" [] c = "w" -> "W" [] c = "x" -> "X"
      [] c = "y" -> "Y" [] c = "z" -> "Z"
      [] OTHER -> c

\* str::to_uppercase on type names.
RECURSIVE type_to_uppercase(_)
type_to_uppercase(t) ==
    IF t = "" THEN ""
    ELSE upper_char(char_at(t, 1)) \o type_to_uppercase(Tail(t))

\* str::trim
RECURSIVE str_trim(_)
str_trim(t) ==
    IF t = "" THEN ""
    ELSE IF char_at(t, 1) = " " THEN str_trim(Tail(t))
    ELSE IF char_at(t, Len(t)) = " " THEN str_trim(SubSeq(t, 1, Len(t) - 1))
    ELSE t

\* str::replace: every non-overlapping occurrence of from, left to right.
RECURSIVE str_replace(_, _, _)
str_replace(t, from, to) ==
    IF Len(t) < Len(from) THEN t
    ELSE IF SubSeq(t, 1, Len(from)) = from
    THEN to \o str_replace(SubSeq(t, Len(from) + 1, Len(t)), from, to)
    ELSE char_at(t, 1) \o str_replace(Tail(t), from, to)

\* The replace() calls of normalize_type, in the order they are chained.
NormalizeReplacements ==
    << <<"CHARACTER VARYING", "VARCHAR">>,
       <<"INT4", "INTEGER">>,
       <<"INT8", "BIGINT">>,
       <<"INT2", "SMALLINT">>,
       <<"FLOAT4", "REAL">>,
       <<"FLOAT8", "DOUBLE PRECISION">>,
       <<"BOOL", "BOOLEAN">>,
       <<"TIMESTAMP WITHOUT TIME ZONE", "TIMESTAMP">>,
       <<"TIMESTAMP WITH TIME ZONE", "TIMESTAMPTZ">> >>

RECURSIVE replace_chain(_, _)
replace_chain(t, i) ==
    IF i > Len(NormalizeReplacements) THEN t
    ELSE replace_chain(str_replace(t, NormalizeReplacements[i][1],
                                   NormalizeReplacements[i][2]), i + 1)

\* TypeChecker::normalize_type
normalize_type(type_name) ==
    replace_chain(type_to_uppercase(str_trim(type_name)), 1)

\* str::find('('): the position of the first "(", 0 when there is none.
RECURSIVE find_paren(_, _)
find_paren(t, i) ==
    IF i > Len(t) THEN 0
    ELSE IF char_at(t, i) = "(" THEN i
    ELSE find_paren(t, i + 1)

\* TypeChecker::extract_base_type
extract_base_type(type_name) ==
    LET paren_pos == find_paren(type_name, 1)
    IN  IF paren_pos > 0 THEN str_trim(SubSeq(type_name, 1, paren_pos - 1))
        ELSE type_name

\* Option<usize> / Option<(usize, usize)>
NoNumber == [some |-> FALSE]

SomeNumber(v) == [some |-> TRUE, value |-> v]

\* The first position at or after i that holds no digit (\d+ is greedy).
RECURSIVE digits_end(_, _)
digits_end(t, i) ==
    IF i <= Len(t) /\ char_at(t, i) \in AsciiDigit
    THEN digits_end(t, i + 1) ELSE i

\* The first position at or after i that holds no space (\s*).
RECURSIVE spaces_end(_, _)
spaces_end(t, i) ==
    IF i <= Len(t) /\ char_at(t, i) = " "
    THEN spaces_end(t, i + 1) ELSE i

digit_value(c) ==
    CASE c = "0" -> 0 [] c = "1" -> 1 [] c = "2" -> 2 [] c = "3" -> 3
      [] c = "4" -> 4 [] c = "5" -> 5 [] c = "6" -> 6 [] c = "7" -> 7
      [] c = "8" -> 8 [] OTHER -> 9

\* str::parse::<usize> on a run of digits.
RECURSIVE parse_usize(_)
parse_usize(t) ==
    IF t = "" THEN 0
    ELSE parse_usize(SubSeq(t, 1, Len(t) - 1)) * 10
         + digit_value(char_at(t, Len(t)))

\* TypeChecker::extract_length: the first match of \((\d+)\) at or after
\* position i.
RECURSIVE extract_length_from(_, _)
extract_length_from(t, i) ==
    IF i > Len(t) THEN NoNumber
    ELSE IF char_at(t, i) = "("
    THEN LET e == digits_end(t, i + 1)
         IN  IF e > i + 1 /\ e <= Len(t) /\ char_at(t, e) = ")"
             THEN SomeNumber(parse_usize(SubSeq(t, i + 1, e - 1)))
             ELSE extract_length_from(t, i + 1)
    ELSE extract_length_from(t, i + 1)

extract_length(type_name) == extract_length_from(type_name, 1)

\* check_numeric_change: parse_precision_scale, the first match of
\* \((\d+)(?:,\s*(\d+))?\) at or after position i.
RECURSIVE parse_precision_scale_from(_, _)
parse_precision_scale_from(t, i) ==
    IF i > Len(t) THEN NoNumber
    ELSE IF char_at(t, i) = "("
    THEN LET e == digits_end(t, i + 1)
             precision == parse_usize(SubSeq(t, i + 1, e - 1))
         IN  IF e = i + 1 \/ e > Len(t)
             THEN parse_precision_scale_from(t, i + 1)
             ELSE IF char_at(t, e) = ")"
             THEN SomeNumber(<<precision, 0>>)
             ELSE IF char_at(t, e) = ","
             THEN LET b == spaces_end(t, e + 1)
                      f == digits_end(t, b)
                  IN  IF f > b /\ f <= Len(t) /\ char_at(t, f) = ")"
                      THEN SomeNumber(<<precision,
                                        parse_usize(SubSeq(t, b, f - 1))>>)
                      ELSE parse_precision_scale_from(t, i + 1)
             ELSE parse_precision_scale_from(t, i + 1)
    ELSE parse_precision_scale_from(t, i + 1)

parse_precision_scale(t) == parse_precision_scale_from(t, 1)

\* TypeChecker::new: safe_widenings
safe_widenings(from_base) ==
    CASE from_base \in {"SMALLINT", "INT2"} ->
           {"INTEGER", "INT", "INT4", "BIGINT", "INT8", "NUMERIC", "DECIMAL",
            "REAL", "FLOAT4", "DOUBLE PRECISION", "FLOAT8"}
      [] from_base \in {"INTEGER", "INT", "INT4"} ->
           {"BIGINT", "INT8", "NUMERIC", "DECIMAL", "DOUBLE PRECISION", "FLOAT8"}
      [] from_base \in {"BIGINT", "INT8"} -> {"NUMERIC", "DECIMAL"}
      [] from_base \in {"CHAR", "CHARACTER"} ->
           {"VARCHAR", "CHARACTER VARYING", "TEXT"}
      [] from_base \in {"VARCHAR", "CHARACTER VARYING"} -> {"TEXT"}
      [] from_base \in {"REAL", "FLOAT4"} ->
           {"DOUBLE PRECISION", "FLOAT8", "NUMERIC", "DECIMAL"}
      [] from_base \in {"DOUBLE PRECISION", "FLOAT8"} -> {"NUMERIC", "DECIMAL"}
      [] from_base = "DATE" ->
           {"TIMESTAMP", "TIMESTAMP WITHOUT TIME ZONE", "TIMESTAMPTZ",
            "TIMESTAMP WITH TIME ZONE"}
      [] from_base \in {"TIMESTAMP", "TIMESTAMP WITHOUT TIME ZONE"} ->
           {"TIMESTAMPTZ", "TIMESTAMP WITH TIME ZONE"}
      [] from_base \in {"TIME", "TIME WITHOUT TIME ZONE"} ->
           {"TIME WITH TIME ZONE", "TIMETZ"}
      [] from_base \in {"BOOLEAN", "BOOL"} ->
           {"INTEGER", "INT", "SMALLINT", "BIGINT"}
      [] from_base = "UUID" -> {"TEXT", "VARCHAR", "CHARACTER VARYING"}
      [] from_base = "JSON" -> {"JSONB", "TEXT"}
      [] from_base = "JSONB" -> {"JSON", "TEXT"}
      [] from_base = "SERIAL" -> {"BIGSERIAL", "INTEGER", "BIGINT"}
      [] from_base = "SMALLSERIAL" ->
           {"SERIAL", "BIGSERIAL", "SMALLINT", "INTEGER", "BIGINT"}
      [] from_base = "BIGSERIAL" -> {"BIGINT", "NUMERIC"}
      [] OTHER -> {}

\* TypeChecker::new: the keys of dataloss_narrowings
dataloss_narrowings ==
    { <<"BIGINT", "INTEGER">>, <<"BIGINT", "INT">>, <<"BIGINT", "SMALLINT">>,
      <<"INTEGER", "SMALLINT">>, <<"INT", "SMALLINT">>, <<"INT4", "INT2">>,
      <<"TEXT", "VARCHAR">>, <<"TEXT", "CHAR">>,
      <<"DOUBLE PRECISION", "REAL">>, <<"FLOAT8", "FLOAT4">>,
      <<"NUMERIC", "REAL">>, <<"NUMERIC", "DOUBLE PRECISION">>,
      <<"TIMESTAMP", "DATE">>, <<"TIMESTAMPTZ", "DATE">>,
      <<"TIMESTAMP WITH TIME ZONE", "DATE">>,
      <<"INTEGER", "BOOLEAN">>, <<"INT", "BOOLEAN">>,
      <<"TEXT", "UUID">>, <<"VARCHAR", "UUID">>,
      <<"TEXT", "JSON">>, <<"TEXT", "JSONB">> }

\* TypeChecker::check_varchar_change ("None": the Option is None)
check_varchar_change(from, to) ==
    LET from_base == extract_base_type(from)
        to_base == extract_base_type(to)
        is_string_type(t) == t = "VARCHAR" \/ t = "CHAR" \/ t = "CHARACTER"
        from_len == extract_length(from)
        to_len == extract_length(to)
    IN  IF ~is_string_type(from_base) \/ ~is_string_type(to_base) THEN "None"
        ELSE IF from_len.some /\ to_len.some
        THEN IF to_len.value >= from_len.value THEN "Safe" ELSE "DataLoss"
        ELSE IF from_len.some
        THEN IF to_base = "VARCHAR" THEN "Safe" ELSE "None"
        ELSE IF to_len.some THEN "DataLoss"
        ELSE "Safe"

\* TypeChecker::check_numeric_change ("None": the Option is None)
check_numeric_change(from, to) ==
    LET from_base == extract_base_type(from)
        to_base == extract_base_type(to)
        from_ps == parse_precision_scale(from)
        to_ps == parse_precision_scale(to)
    IN  IF from_base # "NUMERIC" /\ from_base # "DECIMAL" THEN "None"
        ELSE IF to_base # "NUMERIC" /\ to_base # "DECIMAL" THEN "None"
        ELSE IF from_ps.some /\ to_ps.some
        THEN IF to_ps.value[1] >= from_ps.value[1]
                  /\ to_ps.value[2] >= from_ps.value[2]
             THEN "Safe" ELSE "DataLoss"
        ELSE IF from_ps.some THEN "Safe"
        ELSE IF to_ps.some THEN "DataLoss"
        ELSE "Identical"

\* TypeChecker::check_compatibility
check_compatibility(from_type, to_type) ==
    LET from_normalized == normalize_type(from_type)
        to_normalized == normalize_type(to_type)
        from_base == extract_base_type(from_normalized)
        to_base == extract_base_type(to_normalized)
        varchar_change == check_varchar_change(from_normalized, to_normalized)
        numeric_change == check_numeric_change(from_normalized, to_normalized)
    IN  IF from_normalized = to_normalized THEN "Identical"
        ELSE IF varchar_change # "None" THEN varchar_change
        ELSE IF numeric_change # "None" THEN numeric_change
        ELSE IF to_base \in safe_widenings(from_base) THEN "Safe"
        ELSE IF <<from_base, to_base>> \in dataloss_narrowings THEN "DataLoss"
        ELSE IF from_base \in safe_widenings(to_base) THEN "DataLoss"
        ELSE "Incompatible"

(***************************************************************************)
(* SchemaDiffChecker (schema/diff.rs)                                      *)
(*                                                                         *)
(* A schema is a function table name -> (column name -> column); a diff    *)
(* is the set of its SchemaChange records.                                 *)
(***************************************************************************)

\* ColumnSchema::full_type; the modelled columns have no length and are
\* not NUMERIC.
full_type(col) == type_to_uppercase(col.data_type)

\* SchemaDiffChecker::parse_desired_schema: the tables of the files that
\* DependencyAnalyzer::analyze_sql accepts; a file it rejects is skipped.
parse_desired_schema(dir) ==
    LET parsed == {t \in DOMAIN dir : dir[t].analysis_ok}
    IN  [t \in parsed |->
            [c \in DOMAIN dir[t].columns |->
                [data_type |-> dir[t].columns[c].data_type,
                 is_nullable |-> dir[t].columns[c].is_nullable,
                 column_default |-> dir[t].columns[c].has_default]]]

SchemaChange(table, change_type, column, compatibility) ==
    [table |-> table, change_type |-> change_type, column |-> column,
     compatibility |-> compatibility]

\* checker.check_compatibility(&current.full_type(), &desired.full_type())
\* for every pair of column types of the model, computed once.
ColumnCompatibility ==
    [current \in DesiredTypes \cup LiveTypes,
     desired \in DesiredTypes \cup LiveTypes |->
        check_compatibility(full_type([data_type |-> current]),
                            full_type([data_type |-> desired]))]

\* SchemaDiffChecker::diff_column_type
diff_column_type(table_name, col_name, desired, current) ==
    LET compat == ColumnCompatibility[current.data_type, desired.data_type]
    IN  IF compat = "Identical" THEN {}
        ELSE {SchemaChange(table_name, "ModifyColumnType", col_name, compat)}

\* SchemaDiffChecker::diff_table_columns
diff_table_columns(table_name, desired, current) ==
    UNION {
      IF col_name \notin DOMAIN current
      THEN {SchemaChange(table_name, "AddColumn", col_name,
              IF ~desired[col_name].is_nullable
                    /\ ~desired[col_name].column_default
              THEN "DataLoss" ELSE "Safe")}
      ELSE diff_column_type(table_name, col_name, desired[col_name],
                            current[col_name])
           \cup
           (IF desired[col_name].is_nullable # current[col_name].is_nullable
            THEN {SchemaChange(table_name, "ModifyColumnNullable", col_name,
                    IF ~desired[col_name].is_nullable
                    THEN "DataLoss" ELSE "Safe")}
            ELSE {})
      : col_name \in DOMAIN desired }
    \cup
    {SchemaChange(table_name, "DropColumn", col_name, "DataLoss") :
        col_name \in DOMAIN current \ DOMAIN desired}

\* SchemaDiffChecker::diff_schemas
diff_schemas(desired, current) ==
    UNION {
      IF table_name \notin DOMAIN current
      THEN {SchemaChange(table_name, "CreateTable", "", "Safe")}
      ELSE diff_table_columns(table_name, desired[table_name],
                              current[table_name])
      : table_name \in DOMAIN desired }
    \cup
    {SchemaChange(table_name, "DropTable", "", "DataLoss") :
        table_name \in DOMAIN current \ DOMAIN desired}

\* SchemaDiff::is_safe
is_safe(diff) ==
    /\ {ch \in diff : ch.compatibility = "DataLoss"} = {}
    /\ {ch \in diff : ch.compatibility = "Incompatible"} = {}

(***************************************************************************)
(* POST /v2/migrate (api/migrate_v2.rs)                                    *)
(*                                                                         *)
(* The platform p has the stored schema s and two recorded databases,      *)
(* p_s_1 and p_s_2, both existing in the cluster.  gateLive is the live    *)
(* schema of p_s_1, the first database of every batch.  The statement log  *)
(* holds <<database, statement>> for every statement group that was        *)
(* executed.                                                               *)
(***************************************************************************)

GateDb1 == <<"p", "_", "s", "_", "1">>

GateDb2 == <<"p", "_", "s", "_", "2">>

\* PlatformRegistry::list_databases(platform, Some(schema_name)), sorted
\* by database name.
list_databases(platform, schema_name) ==
    IF platform = <<"p">> /\ schema_name = <<"s">>
    THEN <<GateDb1, GateDb2>> ELSE <<>>

\* PoolManager::database_exists for the databases of the model.
gate_database_exists(db_name) == db_name \in {GateDb1, GateDb2}

\* tables/ directories: table t with column c and optionally column d,
\* and optionally table u, whose file analyze_sql may reject.
GateColumn(data_type, is_nullable, has_default) ==
    [data_type |-> data_type, is_nullable |-> is_nullable,
     has_default |-> has_default]

GateDesiredT ==
    { [analysis_ok |-> TRUE, columns |-> cols] :
        cols \in
          { [x \in {"c"} |-> GateColumn(ty, TRUE, FALSE)] : ty \in DesiredTypes }
          \cup
          { [x \in {"c", "d"} |->
                IF x = "c" THEN GateColumn(ty, TRUE, FALSE)
                ELSE GateColumn("INTEGER", nullable, FALSE)] :
              ty \in DesiredTypes, nullable \in BOOLEAN } }

GateDesiredU ==
    { [analysis_ok |-> ok,
       columns |-> [x \in {"c"} |-> GateColumn("INTEGER", TRUE, FALSE)]] :
        ok \in BOOLEAN }

GateDirs ==
    { [x \in {} |-> 0] }
    \cup { [x \in {"t"} |-> t] : t \in GateDesiredT }
    \cup { [x \in {"u"} |-> u] : u \in GateDesiredU }
    \cup { [x \in {"t", "u"} |-> IF x = "t" THEN t ELSE u] :
             t \in GateDesiredT, u \in GateDesiredU }

LiveColumn(data_type, is_nullable) ==
    [data_type |-> data_type, is_nullable |-> is_nullable]

GateLiveT ==
    { [x \in {"c"} |-> LiveColumn(ty, TRUE)] : ty \in LiveTypes }
    \cup
    { [x \in {"c", "d"} |->
          IF x = "c" THEN LiveColumn(ty, TRUE)
          ELSE LiveColumn("INTEGER", TRUE)] : ty \in LiveTypes }

GateLiveU == [x \in {"c"} |-> LiveColumn("INTEGER", TRUE)]

GateLives ==
    { [x \in {} |-> 0] }
    \cup { [x \in {"t"} |-> t] : t \in GateLiveT }
    \cup { [x \in {"u"} |-> GateLiveU] }
    \cup { [x \in {"t", "u"} |->
              IF x = "t" THEN [y \in {"c"} |-> LiveColumn("INTEGER", TRUE)]
              ELSE GateLiveU] }

\* The schema information_schema reports once the migrations have brought
\* the database to the declared tables: data_type is the canonical name
\* of the declared type.
PgDataTypes ==
    [data_type \in DesiredTypes \cup LiveTypes |-> normalize_type(data_type)]

pg_data_type(data_type) == PgDataTypes[data_type]

declared_schema(dir) ==
    [t \in DOMAIN dir |->
        [c \in DOMAIN dir[t].columns |->
            LiveColumn(pg_data_type(dir[t].columns[c].data_type),
                       dir[t].columns[c].is_nullable)]]

NoGateOutcome ==
    [status |-> 0, error |-> "", migration |-> "", force |-> FALSE,
     fault |-> "", databases_to_migrate |-> <<>>,
     databases_updated |-> <<>>, validation |-> "none",
     verification |-> "none", response |-> ""]

\* MigrateV2Request values that pass the handler's checks: platform p,
\* schema s, one recorded database or all of them.
GateRequests ==
    { [platform |-> <<"p">>, schema_name |-> <<"s">>, database_id |-> id,
       force |-> f] : id \in {<<>>, <<"1">>}, f \in BOOLEAN }

\* MigrateV2Request values the handler turns down: unregistered platform,
\* unknown schema, platform without databases, unknown database.
GateBadRequests ==
    { [platform |-> <<"q">>, schema_name |-> <<"s">>, database_id |-> <<>>,
       force |-> FALSE],
      [platform |-> <<"p">>, schema_name |-> <<"t">>, database_id |-> <<>>,
       force |-> FALSE],
      [platform |-> <<"P">>, schema_name |-> <<"s">>, database_id |-> <<>>,
       force |-> FALSE],
      [platform |-> <<"p">>, schema_name |-> <<"s">>, database_id |-> <<"9">>,
       force |-> FALSE] }

\* The faults of one request: no fault, or one step on one database of the
\* batch failing.  "verification_not_passed" is verify_schema finding an
\* extension, a custom type or a seeder record missing.
GateFaults ==
    { <<0, "none">> }
    \cup { <<1, step>> : step \in
             { "get_pool_by_name", "ensure_changelog_table",
               "query_current_schema", "run_migrations", "deploy_functions",
               "verify_schema", "verification_not_passed" } }
    \cup { <<2, step>> : step \in
             { "get_pool_by_name", "ensure_changelog_table",
               "run_migrations", "deploy_functions" } }

gate_error(st, req, fault, error, migration) ==
    [st EXCEPT !.outcome =
        [status |-> http_status(error), error |-> error,
         migration |-> migration, force |-> req.force, fault |-> fault[2],
         databases_to_migrate |-> st.to_migrate,
         databases_updated |-> st.updated, validation |-> st.validation,
         verification |-> st.verification, response |-> ""]]

gate_issue(st, db_name, statement) ==
    [st EXCEPT !.sql = Append(@, <<db_name, statement>>)]

\* SchemaDiffChecker::validate_migration, called for the first database.
\* Returns the handler state with .validation set, and .rejected when the
\* call returns Err.
validate_migration(st, db_name, dir, force, fault) ==
    LET desired == parse_desired_schema(dir)
    IN  IF DOMAIN desired = {}
        THEN [st EXCEPT !.validation = "skipped"]
        ELSE IF fault = <<1, "query_current_schema">>
        THEN [st EXCEPT !.rejected = "QueryFailed"]
        ELSE
          LET queried == gate_issue(st, db_name, "query_current_schema")
              checked(diff) ==
                  IF ~is_safe(diff) /\ ~force
                  THEN [queried EXCEPT !.rejected = "MigrationFailed",
                                       !.validation = "blocked"]
                  ELSE [queried EXCEPT !.validation =
                           IF is_safe(diff) THEN "safe" ELSE "forced"]
          IN  CHOOSE r \in {checked(diff) :
                              diff \in {diff_schemas(desired, st.live)}} : TRUE

\* SchemaVerifier::verify_tables: the declared tables the database lacks,
\* and the DataLoss and Incompatible changes of the diff as mismatches.
verify_tables(dir, live) ==
    LET desired == parse_desired_schema(dir)
        diff == diff_schemas(desired, live)
    IN  [missing |-> DOMAIN desired \ DOMAIN live,
         mismatches |-> {ch \in diff :
                           ch.compatibility \in {"DataLoss", "Incompatible"}}]

\* A verification that passes whatever it finds.
verify_schema_passes(dir, live, other_missing) == TRUE

\* SchemaVerifier::verify_schema: result.passed.  other_missing: the
\* extensions, custom types or seeder records have something missing.
verify_schema(dir, live, other_missing) ==
    LET tables == verify_tables(dir, live)
    IN  ~other_missing /\ tables.missing = {} /\ tables.mismatches = {}

\* The body of the handler's loop for database number i of the batch and
\* the loops of the databases after it.  migrated: the migration run
\* applies files (bringing the database to the declared tables);
\* functions: the function deployment updates functions.  A failing
\* run_migrations is taken to fail in its first file.
\* migrate_database is the loop body from run_migrations on, entered with
\* the state s2 left by ensure_changelog_table and validate_migration.
RECURSIVE migrate_databases(_, _, _, _, _, _, _, _)
migrate_database(s2, dbs, i, req, dir, fault, migrated, functions) ==
    LET db_name == dbs[i]
        fails(step) == fault = <<i, step>>
        ran == gate_issue(
                  IF migrated /\ i = 1
                  THEN [s2 EXCEPT !.live = declared_schema(dir)] ELSE s2,
                  db_name, "run_migrations")
        deployed == gate_issue(ran, db_name, "deploy_functions")
        verified == IF i = 1
                    THEN [gate_issue(deployed, db_name, "verify_schema")
                            EXCEPT !.verification =
                               IF verify_schema(dir, ran.live,
                                      fails("verification_not_passed"))
                               THEN "passed" ELSE "failed"]
                    ELSE deployed
        logged1(v) == IF migrated
                      THEN gate_issue(v, db_name, "log_migration")
                      ELSE v
        logged2(v) == IF functions
                      THEN gate_issue(logged1(v), db_name,
                                      "log_function_deployed")
                      ELSE logged1(v)
        \* From the verification result v on.
        finish(v) ==
            IF i = 1 /\ v.verification = "failed" /\ ~req.force
            THEN gate_error(v, req, fault, "MigrationFailed",
                            "schema verification")
            ELSE CHOOSE r \in {migrate_databases(n, dbs, i + 1, req, dir,
                                                 fault, migrated, functions) :
                                 n \in {[logged2(v) EXCEPT !.updated =
                                            Append(@, db_name)]}} : TRUE
    IN
    IF s2.rejected # ""
    THEN gate_error(s2, req, fault, s2.rejected,
            IF s2.rejected = "MigrationFailed"
            THEN "schema validation" ELSE "")
    ELSE IF fails("run_migrations")
    THEN gate_error(gate_issue(s2, db_name, "run_migrations"), req, fault,
                    "MigrationFailed", "migration file")
    ELSE IF fails("deploy_functions")
    THEN gate_error(deployed, req, fault, "FunctionDeployFailed", "")
    ELSE IF i = 1 /\ fails("verify_schema")
    THEN gate_error(deployed, req, fault, "QueryFailed", "")
    ELSE CHOOSE r \in {finish(v) : v \in {verified}} : TRUE

migrate_databases(st, dbs, i, req, dir, fault, migrated, functions) ==
    IF i > Len(dbs)
    THEN [st EXCEPT !.outcome =
             [status |-> 200, error |-> "", migration |-> "",
              force |-> req.force, fault |-> fault[2],
              databases_to_migrate |-> st.to_migrate,
              databases_updated |-> st.updated,
              validation |-> st.validation,
              verification |-> st.verification,
              response |-> IF st.verification = "failed"
                           THEN "completed_with_warnings"
                           ELSE "completed"]]
    ELSE IF fault = <<i, "get_pool_by_name">>
    THEN gate_error(st, req, fault, "ConnectionFailed", "")
    ELSE IF fault = <<i, "ensure_changelog_table">>
    THEN gate_error(st, req, fault, "MigrationFailed",
                    "_stonescriptdb_gateway_changelog table creation")
    ELSE
      LET s1 == gate_issue(st, dbs[i], "ensure_changelog_table")
      IN  CHOOSE r \in {migrate_database(s2, dbs, i, req, dir, fault,
                                         migrated, functions) :
                          s2 \in {IF i = 1
                                  THEN validate_migration(s1, dbs[i], dir,
                                                          req.force, fault)
                                  ELSE s1}} : TRUE

\* api::migrate_v2::migrate_schema_v2
migrate_schema_v2(live, dir, req, fault, migrated, functions) ==
    LET st == [sql |-> <<>>, live |-> live, to_migrate |-> <<>>,
               updated |-> <<>>,
               validation |-> "none", verification |-> "none",
               rejected |-> "",
               outcome |-> NoGateOutcome]
        db_name == db_name_of(req.platform, req.schema_name, req.database_id)
    IN  IF req.platform \notin RegisteredPlatforms
        THEN gate_error(st, req, fault, "InvalidRequest", "")
        ELSE IF <<req.platform, req.schema_name>> \notin StoredSchemas
        THEN gate_error(st, req, fault, "InvalidRequest", "")
        ELSE IF req.database_id # <<>> /\ ~gate_database_exists(db_name)
        THEN gate_error(st, req, fault, "DatabaseNotFound", "")
        ELSE
          LET dbs == IF req.database_id # <<>> THEN <<db_name>>
                     ELSE list_databases(req.platform, req.schema_name)
          IN  IF dbs = <<>>
              THEN gate_error(st, req, fault, "InvalidRequest", "")
              ELSE migrate_databases([st EXCEPT !.to_migrate = dbs], dbs, 1,
                                     req, dir, fault, migrated, functions)

GateInit ==
    /\ gateDesired \in GateDirs
    /\ gateLive \in GateLives
    /\ gateSql = <<>>
    /\ gateOutcome = NoGateOutcome

\* One POST /v2/migrate request, start to response.
MigrateV2 ==
    \E req \in GateRequests \cup GateBadRequests :
      \E fault \in (IF req \in GateRequests THEN GateFaults
                    ELSE {<<0, "none">>}),
         migrated \in (IF req \in GateRequests THEN BOOLEAN ELSE {FALSE}),
         functions \in (IF req \in GateRequests THEN BOOLEAN ELSE {FALSE}) :
        \E r \in {migrate_schema_v2(gateLive, gateDesired, req, fault,
                                    migrated, functions)} :
          /\ gateLive' = r.live
          /\ gateSql' = r.sql
          /\ gateOutcome' = r.outcome
          /\ UNCHANGED <<gateDesired, migVars, tblVars, fnVars, crVars, pmVars, restVars>>

(***************************************************************************)
(* PoolManager (pool/manager.rs)                                           *)
(*                                                                         *)
(* The handlers run as tasks of a multi-threaded runtime (main.rs,         *)
(* #[tokio::main]), so every access to the shared map and to the shared    *)
(* counter is a step of its own and the steps of different tasks           *)
(* interleave.  Time is the sequence of readings of Instant::now(): every  *)
(* reading is later than the one before it.                                *)
(***************************************************************************)

\* config.max_connections_per_pool, config.max_total_connections and
\* config.pool_idle_timeout (in clock readings).
PerPool == 10
MaxTotal == 20
IdleTimeout == 1

\* Number of clock readings explored.
MaxClock == 5

PoolDatabases == {"d1", "d2", "d3"}
Requesters == {"r1", "r2"}

\* Option<String>::None of oldest_key.
NoKey == ""

\* total_connections is an AtomicU32.  pmTotal holds an integer k that
\* stands for the counter value k mod 2^32: a negative k is the wrapped
\* value 2^32 + k that fetch_sub leaves after subtracting below zero.
fetch_add(k, n) == k + n
fetch_sub(k, n) == k - n

\* `current + max_connections_per_pool` leaves the u32 range when current is
\* a wrapped value within PerPool of 2^32.
add_overflows(current) == current < 0 /\ current + PerPool >= 0

\* Mutation of over_budget: no request ever evicts.
never_over_budget(current) == FALSE

\* `current + max_connections_per_pool > max_total_connections`, the sum
\* taken modulo 2^32.
over_budget(current) ==
    IF current >= 0 \/ add_overflows(current)
    THEN current + PerPool > MaxTotal
    ELSE TRUE

\* Instant::now()
now == pmClock + 1

\* now.duration_since(last_used), which saturates at zero.
duration_since(t, last_used) == IF t > last_used THEN t - last_used ELSE 0

\* DashMap::insert and DashMap::remove
pools_insert(pools, key, last_used) ==
    [d \in DOMAIN pools \cup {key} |-> IF d = key THEN last_used ELSE pools[d]]

pools_remove(pools, key) == [d \in DOMAIN pools \ {key} |-> pools[d]]

\* A request task outside get_pool_by_name.  evicted: the call in progress
\* has removed an entry from the map.
IdleTask == [pc |-> "idle", db |-> NoKey, scanned |-> {},
             oldest_key |-> NoKey, oldest_time |-> 0, evicted |-> FALSE]

IdleCleaner == [pc |-> "idle", now |-> 0, scanned |-> {}, to_remove |-> <<>>]

PmInit ==
    /\ pmPools = <<>>
    /\ pmTotal = 0
    /\ pmClock = 0
    /\ pmProc = [p \in Requesters |-> IdleTask]
    /\ pmCleaner = IdleCleaner

\* get_pool_by_name, the entry is in the map: last_used is set to now and
\* the pool is returned.  The map guard is held while last_used is written,
\* so the entry cannot be removed in between.
GetPoolHit(p) ==
    /\ pmProc[p].pc = "idle"
    /\ pmClock < MaxClock
    /\ \E db \in DOMAIN pmPools :
        pmPools' = [pmPools EXCEPT ![db] = now]
    /\ pmClock' = now
    /\ UNCHANGED <<pmTotal, pmProc, pmCleaner>>
    /\ UNCHANGED otherVars

\* get_pool_by_name, the entry is not in the map: create_pool_for_database
\* is entered.
GetPoolMiss(p) ==
    /\ pmProc[p].pc = "idle"
    /\ \E db \in PoolDatabases \ DOMAIN pmPools :
        pmProc' = [pmProc EXCEPT ![p] = [IdleTask EXCEPT !.pc = "load",
                                                         !.db = db]]
    /\ UNCHANGED <<pmPools, pmTotal, pmClock, pmCleaner>>
    /\ UNCHANGED otherVars

\* create_pool_for_database: the counter is loaded and compared with the
\* budget.  Where the sum overflows, a build with overflow checks panics
\* and the request ends; a build without them wraps.
LoadTotal(p) ==
    /\ pmProc[p].pc = "load"
    /\ \/ pmProc' = [pmProc EXCEPT ![p].pc = IF over_budget(pmTotal)
                                             THEN "evict" ELSE "connect"]
       \/ /\ add_overflows(pmTotal)
          /\ pmProc' = [pmProc EXCEPT ![p] = IdleTask]
    /\ UNCHANGED <<pmPools, pmTotal, pmClock, pmCleaner>>
    /\ UNCHANGED otherVars

\* evict_lru_pool: oldest_time starts at now.
EvictStart(p) ==
    /\ pmProc[p].pc = "evict"
    /\ pmClock < MaxClock
    /\ pmProc' = [pmProc EXCEPT ![p].pc = "scan",
                                ![p].scanned = {},
                                ![p].oldest_key = NoKey,
                                ![p].oldest_time = now]
    /\ pmClock' = now
    /\ UNCHANGED <<pmPools, pmTotal, pmCleaner>>
    /\ UNCHANGED otherVars

\* evict_lru_pool: one turn of the loop over the map, in the map's order.
EvictScan(p) ==
    /\ pmProc[p].pc = "scan"
    /\ \E d \in DOMAIN pmPools \ pmProc[p].scanned :
        pmProc' = [pmProc EXCEPT
            ![p].scanned = @ \cup {d},
            ![p].oldest_key = IF pmPools[d] < pmProc[p].oldest_time
                              THEN d ELSE @,
            ![p].oldest_time = IF pmPools[d] < pmProc[p].oldest_time
                               THEN pmPools[d] ELSE @]
    /\ UNCHANGED <<pmPools, pmTotal, pmClock, pmCleaner>>
    /\ UNCHANGED otherVars

\* evict_lru_pool: the loop is over; the oldest entry found is removed from
\* the map if it is still there.
EvictRemove(p) ==
    /\ pmProc[p].pc = "scan"
    /\ DOMAIN pmPools \subseteq pmProc[p].scanned
    /\ IF pmProc[p].oldest_key \in DOMAIN pmPools
       THEN /\ pmPools' = pools_remove(pmPools, pmProc[p].oldest_key)
            /\ pmProc' = [pmProc EXCEPT ![p].pc = "sub", ![p].scanned = {},
                                        ![p].evicted = TRUE]
       ELSE /\ pmPools' = pmPools
            /\ pmProc' = [pmProc EXCEPT ![p].pc = "connect",
                                        ![p].scanned = {},
                                        ![p].oldest_key = NoKey,
                                        ![p].oldest_time = 0]
    /\ UNCHANGED <<pmTotal, pmClock, pmCleaner>>
    /\ UNCHANGED otherVars

\* evict_lru_pool: the removal succeeded, the counter is decreased.
EvictSub(p) ==
    /\ pmProc[p].pc = "sub"
    /\ pmTotal' = fetch_sub(pmTotal, PerPool)
    /\ pmProc' = [pmProc EXCEPT ![p].pc = "connect",
                                ![p].oldest_key = NoKey,
                                ![p].oldest_time = 0]
    /\ UNCHANGED <<pmPools, pmClock, pmCleaner>>
    /\ UNCHANGED otherVars

\* create_pool_for_database: the test connection fails and the request ends
\* with ConnectionFailed.
ConnectFails(p) ==
    /\ pmProc[p].pc = "connect"
    /\ pmProc' = [pmProc EXCEPT ![p] = IdleTask]
    /\ UNCHANGED <<pmPools, pmTotal, pmClock, pmCleaner>>
    /\ UNCHANGED otherVars

\* create_pool_for_database: the test connection succeeds; the entry is
\* built with last_used = now and inserted, replacing an entry of the same
\* name.
InsertPool(p) ==
    /\ pmProc[p].pc = "connect"
    /\ pmClock < MaxClock
    /\ pmPools' = pools_insert(pmPools, pmProc[p].db, now)
    /\ pmClock' = now
    /\ pmProc' = [pmProc EXCEPT ![p].pc = "add"]
    /\ UNCHANGED <<pmTotal, pmCleaner>>
    /\ UNCHANGED otherVars

\* create_pool_for_database: the counter is increased and the pool returned.
AddTotal(p) ==
    /\ pmProc[p].pc = "add"
    /\ pmTotal' = fetch_add(pmTotal, PerPool)
    /\ pmProc' = [pmProc EXCEPT ![p] = IdleTask]
    /\ UNCHANGED <<pmPools, pmClock, pmCleaner>>
    /\ UNCHANGED otherVars

\* cleanup_idle_pools is called by the cleanup task of main.rs.
CleanupStart ==
    /\ pmCleaner.pc = "idle"
    /\ pmClock < MaxClock
    /\ pmCleaner' = [IdleCleaner EXCEPT !.pc = "scan", !.now = now]
    /\ pmClock' = now
    /\ UNCHANGED <<pmPools, pmTotal, pmProc>>
    /\ UNCHANGED otherVars

\* cleanup_idle_pools: one turn of the first loop.
CleanupScan ==
    /\ pmCleaner.pc = "scan"
    /\ \E d \in DOMAIN pmPools \ pmCleaner.scanned :
        pmCleaner' = [pmCleaner EXCEPT
            !.scanned = @ \cup {d},
            !.to_remove = IF duration_since(pmCleaner.now, pmPools[d])
                             > IdleTimeout
                          THEN Append(@, d) ELSE @]
    /\ UNCHANGED <<pmPools, pmTotal, pmClock, pmProc>>
    /\ UNCHANGED otherVars

\* cleanup_idle_pools: the first loop is over.
CleanupScanEnd ==
    /\ pmCleaner.pc = "scan"
    /\ DOMAIN pmPools \subseteq pmCleaner.scanned
    /\ pmCleaner' = [pmCleaner EXCEPT !.pc = "remove", !.scanned = {}]
    /\ UNCHANGED <<pmPools, pmTotal, pmClock, pmProc>>
    /\ UNCHANGED otherVars

\* cleanup_idle_pools: one turn of the second loop removes the key from the
\* map if it is there; after the last turn the pass returns.
CleanupRemove ==
    /\ pmCleaner.pc = "remove"
    /\ IF pmCleaner.to_remove = <<>>
       THEN /\ pmCleaner' = IdleCleaner
            /\ pmPools' = pmPools
       ELSE IF Head(pmCleaner.to_remove) \in DOMAIN pmPools
       THEN /\ pmPools' = pools_remove(pmPools, Head(pmCleaner.to_remove))
            /\ pmCleaner' = [pmCleaner EXCEPT !.pc = "sub"]
       ELSE /\ pmPools' = pmPools
            /\ pmCleaner' = [pmCleaner EXCEPT !.to_remove = Tail(@)]
    /\ UNCHANGED <<pmTotal, pmClock, pmProc>>
    /\ UNCHANGED otherVars

\* cleanup_idle_pools: the removal succeeded, the counter is decreased.
CleanupSub ==
    /\ pmCleaner.pc = "sub"
    /\ pmTotal' = fetch_sub(pmTotal, PerPool)
    /\ pmCleaner' = [pmCleaner EXCEPT !.pc = "remove", !.to_remove = Tail(@)]
    /\ UNCHANGED <<pmPools, pmClock, pmProc>>
    /\ UNCHANGED otherVars

\* One step of request task p.
RequestStep(p) ==
    \/ GetPoolHit(p)
    \/ GetPoolMiss(p)
    \/ LoadTotal(p)
    \/ EvictStart(p)
    \/ EvictScan(p)
    \/ EvictRemove(p)
    \/ EvictSub(p)
    \/ ConnectFails(p)
    \/ InsertPool(p)
    \/ AddTotal(p)

\* One step of the cleanup task.
CleanupStep ==
    \/ CleanupStart
    \/ CleanupScan
    \/ CleanupScanEnd
    \/ CleanupRemove
    \/ CleanupSub

\* No operation of the pool manager is in progress.
PmQuiescent ==
    /\ \A p \in Requesters : pmProc[p].pc = "idle"
    /\ pmCleaner.pc = "idle"

(***************************************************************************)
(* SeederRunner (schema/seeder.rs)                                         *)
(***************************************************************************)

SeederFileNames == {"sa.pssql", "sb.pssql"}
SeederTables == {"t", "u"}
SeederRecords == {"r1", "r2"}
MaxRecords == 2

\* What parse_seeder makes of a file: the table and the value tuples of the
\* file's first INSERT statement, or None when the file has no INSERT.
NoInsert == [table_name |-> "", records |-> <<>>]

SeederContents ==
    {NoInsert} \cup
    [table_name : SeederTables,
     records : UNION {[1..n -> SeederRecords] : n \in 0..MaxRecords}]

\* find_seeder_files: the parsed files, sorted by file name; a file without
\* an INSERT statement is left out.
find_seeder_files(disk) ==
    LET names == SortNames({f \in DOMAIN disk : disk[f] # NoInsert})
    IN  [i \in 1..Len(names) |->
            [name |-> names[i],
             table_name |-> disk[names[i]].table_name,
             records |-> disk[names[i]].records]]

\* A test that takes every table for empty.
table_never_has_rows(count) == FALSE

\* The test of run_seeder_if_empty on the result of SELECT COUNT(*).
table_has_rows(count) == count > 0

SeederFaults == {"none", "connect", "count", "insert1", "insert2"}

\* The number of the INSERT statement a fault makes fail (0: none).
FailingInsert(fault) ==
    CASE fault = "insert1" -> 1
      [] fault = "insert2" -> 2
      [] OTHER -> 0

SeederResult(table, inserted, skipped, total_expected) ==
    [table |-> table, inserted |-> inserted, skipped |-> skipped,
     total_expected |-> total_expected]

NoSeederResult == SeederResult("", 0, 0, 0)

\* run_seeder_if_empty: count the table's rows; skip the file when the table
\* has rows, otherwise send one INSERT per record, outside any transaction,
\* and stop at the first one that fails.
run_seeder_if_empty(rows, seeder, fault) ==
    LET t == seeder.table_name
        n == Len(seeder.records)
        k == FailingInsert(fault)
    IN  IF fault = "connect"
        THEN [ok |-> FALSE, error |-> "ConnectionFailed", rows |-> rows,
              result |-> NoSeederResult]
        ELSE IF fault = "count"
        THEN [ok |-> FALSE, error |-> "QueryFailed", rows |-> rows,
              result |-> NoSeederResult]
        ELSE IF table_has_rows(Len(rows[t]))
        THEN [ok |-> TRUE, error |-> "", rows |-> rows,
              result |-> SeederResult(t, 0, n, n)]
        ELSE IF k \in 1..n
        THEN [ok |-> FALSE, error |-> "QueryFailed",
              rows |-> [rows EXCEPT ![t] = @ \o SubSeq(seeder.records, 1, k - 1)],
              result |-> NoSeederResult]
        ELSE [ok |-> TRUE, error |-> "",
              rows |-> [rows EXCEPT ![t] = @ \o seeder.records],
              result |-> SeederResult(t, n, 0, n)]

\* The loop of run_seeders_on_register from file i on; the fault, if any,
\* strikes file failAt.
RECURSIVE run_seeders_from(_, _, _, _, _, _)
run_seeders_from(rows, seeders, i, results, failAt, fault) ==
    IF i > Len(seeders)
    THEN [kind |-> "ok", error |-> "", results |-> results, rows |-> rows]
    ELSE LET r == CHOOSE x \in
                    {run_seeder_if_empty(rows, seeders[i],
                                         IF i = failAt THEN fault ELSE "none")} : TRUE
         IN  IF ~r.ok
             THEN [kind |-> "error", error |-> r.error, results |-> <<>>,
                   rows |-> r.rows]
             ELSE run_seeders_from(r.rows, seeders, i + 1,
                                   Append(results, r.result), failAt, fault)

run_seeders_on_register(rows, disk, failAt, fault) ==
    run_seeders_from(rows, find_seeder_files(disk), 1, <<>>, failAt, fault)

NoSdOutcome == [kind |-> "none", error |-> "", results |-> <<>>]

\* The tables exist; each holds no row or one row written before the run.
SdInit ==
    /\ sdDisk \in UNION {[F -> SeederContents] : F \in SUBSET SeederFileNames}
    /\ sdRows \in [SeederTables -> {<<>>, <<"r0">>}]
    /\ sdOutcome = NoSdOutcome

\* One call of run_seeders_on_register on the database.
RunSeeders ==
    /\ \E failAt \in 1..Cardinality(SeederFileNames), fault \in SeederFaults :
         \E run \in {run_seeders_on_register(sdRows, sdDisk, failAt, fault)} :
            /\ sdRows' = run.rows
            /\ sdOutcome' = [kind |-> run.kind, error |-> run.error,
                             results |-> run.results]
    /\ UNCHANGED sdDisk
    /\ UNCHANGED <<migVars, tblVars, fnVars, crVars, gateVars, pmVars, vfVars, rtVars, moreVars>>

(***************************************************************************)
(* SchemaVerifier (schema/verifier.rs)                                     *)
(*                                                                         *)
(* The expected, found and missing vectors are kept as sets of names.      *)
(***************************************************************************)

\* Extensions: the one a file of extensions/ may name, and what
\* pg_extension may list.
VfExtensionFiles == {"pgvector"}
VfInstalledExtensions == {"pgvector", "plpgsql"}

\* Custom types: the one a file of types/ may define, and what list_types
\* may find in schema public.
VfTypeFiles == {"ty"}
VfPublicTypes == {"ty", "tz"}

\* What one call reads: the names parsed from extensions/ and types/, the
\* result of list_extensions and list_types, the tables/ directory, the
\* live schema, and whether validate_seeders returns Ok.
VfInputs ==
    [ext_files : SUBSET VfExtensionFiles,
     ext_installed : SUBSET VfInstalledExtensions,
     type_files : SUBSET VfTypeFiles,
     type_installed : SUBSET VfPublicTypes,
     tables_dir : GateDirs,
     live : GateLives,
     seeders_valid : BOOLEAN]

\* A section that reports nothing missing whatever was found.
nothing_missing(expected, found) == {}

\* The "find missing" loop of verify_extensions and verify_types.
find_missing(expected, found) == {x \in expected : x \notin found}

\* verify_extensions
verify_extensions(ext_files, installed) ==
    [expected |-> ext_files, found |-> installed,
     missing |-> find_missing(ext_files, installed)]

\* verify_types
verify_types(type_files, installed) ==
    [expected |-> type_files, found |-> installed,
     missing |-> find_missing(type_files, installed)]

\* verify_tables with its expected and found vectors.
TableVerification(dir, live) ==
    [expected |-> DOMAIN parse_desired_schema(dir),
     found |-> DOMAIN live,
     missing |-> verify_tables(dir, live).missing,
     mismatches |-> verify_tables(dir, live).mismatches]

\* verify_seeders: validate_seeders returns Err as soon as a record is
\* missing or a query fails, and the Err is turned into one entry for
\* table "unknown".
verify_seeders(seeders_valid) ==
    [missing |-> IF seeders_valid THEN {} ELSE {"unknown"}]

VerifierFaults == {"none", "list_extensions", "list_types", "query_current_schema"}

NoVerification ==
    [kind |-> "none", passed |-> FALSE,
     extensions |-> verify_extensions({}, {}),
     types |-> verify_types({}, {}),
     tables |-> [expected |-> {}, found |-> {}, missing |-> {}, mismatches |-> {}],
     seeders |-> verify_seeders(TRUE)]

\* verify_schema with the sections of its result; a failing query ends the
\* call with Err.
VerificationResult(in, fault) ==
    LET extensions == verify_extensions(in.ext_files, in.ext_installed)
        types == verify_types(in.type_files, in.type_installed)
        seeders == verify_seeders(in.seeders_valid)
    IN  IF fault # "none"
        THEN [NoVerification EXCEPT !.kind = "error"]
        ELSE [kind |-> "ok",
              passed |-> verify_schema(in.tables_dir, in.live,
                                       \/ extensions.missing # {}
                                       \/ types.missing # {}
                                       \/ seeders.missing # {}),
              extensions |-> extensions,
              types |-> types,
              tables |-> TableVerification(in.tables_dir, in.live),
              seeders |-> seeders]

VfInit ==
    /\ vfInput \in VfInputs
    /\ vfResult = NoVerification

\* One call of SchemaVerifier::verify_schema.
VerifySchema ==
    /\ \E fault \in VerifierFaults :
          vfResult' = VerificationResult(vfInput, fault)
    /\ UNCHANGED vfInput
    /\ UNCHANGED <<migVars, tblVars, fnVars, crVars, gateVars, pmVars, sdVars, rtVars, moreVars>>

(***************************************************************************)
(* Database names (pool/router.rs, api/database.rs)                        *)
(*                                                                         *)
(* Names are sequences of one-character strings.                           *)
(***************************************************************************)

\* Characters a request field may hold: a lowercase letter, an uppercase
\* letter, a digit, a hyphen, an underscore and a character of no class.
RouterChars == {"a", "A", "1", "-", "_", "."}

MaxFieldLen == 2

RouterFields == UNION {[1..n -> RouterChars] : n \in 0..MaxFieldLen}

\* char::is_ascii_alphanumeric
is_ascii_alphanumeric(c) == c \in {"a", "A", "1"}

\* char::to_ascii_lowercase
to_ascii_lowercase(c) == IF c = "A" THEN "a" ELSE c

\* str::trim_matches('_')
RECURSIVE trim_start_matches(_)
trim_start_matches(x) ==
    IF x # <<>> /\ Head(x) = "_" THEN trim_start_matches(Tail(x)) ELSE x

RECURSIVE trim_end_matches(_)
trim_end_matches(x) ==
    IF x # <<>> /\ x[Len(x)] = "_" THEN trim_end_matches(Front(x)) ELSE x

trim_matches(x) == trim_end_matches(trim_start_matches(x))

\* pool::router::sanitize_identifier
sanitize_identifier(x) ==
    trim_matches([i \in DOMAIN x |->
                     IF is_ascii_alphanumeric(x[i])
                     THEN to_ascii_lowercase(x[i])
                     ELSE IF x[i] = "-" \/ x[i] = " " THEN "_"
                     ELSE IF x[i] = "_" THEN x[i]
                     ELSE "_"])

\* Option<&str> for the tenant id.
NoTenant == [some |-> FALSE, value |-> <<>>]

SomeTenant(tid) == [some |-> TRUE, value |-> tid]

\* DatabaseRouter::database_name
database_name(platform, tenant_id) ==
    IF tenant_id.some
    THEN sanitize_identifier(platform) \o <<"_">>
             \o sanitize_identifier(tenant_id.value)
    ELSE sanitize_identifier(platform) \o <<"_", "m", "a", "i", "n">>

\* Requests that name a database by platform and tenant id (call, register,
\* migrate, admin) and by platform, schema name and database id (database
\* create, v2 migrate).
TenantRequests ==
    [kind : {"tenant"}, platform : RouterFields,
     tenant_id : {NoTenant} \cup {SomeTenant(tid) : tid \in RouterFields},
     schema_name : {<<>>}, database_id : {<<>>}]

SchemaRequests ==
    [kind : {"schema"}, platform : CrPlatforms, tenant_id : {NoTenant},
     schema_name : CrSchemaNames, database_id : CrDatabaseIds]

NoName == [derived |-> FALSE, name |-> <<>>]

RtInit ==
    /\ rtRequest \in TenantRequests \cup SchemaRequests
    /\ rtName = NoName

\* PoolManager::database_name as the tenant handlers call it.
DeriveTenantName ==
    /\ rtRequest.kind = "tenant"
    /\ rtName' = [derived |-> TRUE,
                  name |-> database_name(rtRequest.platform,
                                         rtRequest.tenant_id)]
    /\ UNCHANGED rtRequest
    /\ UNCHANGED <<migVars, tblVars, fnVars, crVars, gateVars, pmVars, sdVars, vfVars, moreVars>>

\* The format! of create_database and migrate_schema_v2.
DeriveSchemaName ==
    /\ rtRequest.kind = "schema"
    /\ rtName' = [derived |-> TRUE,
                  name |-> db_name_of(rtRequest.platform,
                                      rtRequest.schema_name,
                                      rtRequest.database_id)]
    /\ UNCHANGED rtRequest
    /\ UNCHANGED <<migVars, tblVars, fnVars, crVars, gateVars, pmVars, sdVars, vfVars, moreVars>>

(***************************************************************************)
(* PoolManager::create_database (pool/manager.rs): the one place where a   *)
(* database name is formatted into a DDL statement                         *)
(***************************************************************************)

\* A name of n characters.
LongName(n) == [i \in 1..n |-> "a"]

\* Names the callers pass: the names api::database::create_database formats
\* and the names DatabaseRouter::database_name derives, with the boundary
\* cases of the validation.
DdNames ==
    { <<>>, <<"a">>, <<"_", "a">>, <<"a", "1">>, <<"1", "a">>, <<"A">>,
      <<"a", "B">>, <<"a", "-">>, <<"a", ";">>, <<"a", "\"">>,
      <<"a", " ", "b">>, LongName(63), LongName(64) }

\* Statements whose failure the method returns.
DdFaults == {"none", "admin_pool", "database_exists", "batch_execute"}

\* format!("CREATE DATABASE \"{}\"", db_name)
format_create_database(db_name) ==
    <<"CREATE DATABASE ", "\"">> \o db_name \o <<"\"">>

NoDdResult == [db_name |-> <<>>, ok |-> TRUE, error |-> "", called |-> FALSE]

\* PoolManager::create_database
PoolManager_create_database(cluster, db_name, fault) ==
    LET err(e) == [cluster |-> cluster, statements |-> <<>>,
                   result |-> [db_name |-> db_name, ok |-> FALSE,
                               error |-> e, called |-> TRUE]]
        ok(c, sent) == [cluster |-> c, statements |-> sent,
                        result |-> [db_name |-> db_name, ok |-> TRUE,
                                    error |-> "", called |-> TRUE]]
    IN  IF fault = "admin_pool" THEN err("ConnectionFailed")
        ELSE IF fault = "database_exists" THEN err("Internal")
        ELSE IF db_name \in cluster THEN ok(cluster, <<>>)
        ELSE IF ~is_valid_identifier(db_name) THEN err("InvalidRequest")
        ELSE LET sql == format_create_database(db_name)
             IN  IF fault = "batch_execute"
                 THEN [err("Internal") EXCEPT !.statements = <<sql>>]
                 ELSE ok(cluster \cup {db_name}, <<sql>>)

DdInit ==
    /\ ddCluster = {}
    /\ ddStatements = <<>>
    /\ ddResult = NoDdResult

\* One call of PoolManager::create_database.
PoolCreateDatabase ==
    \E db_name \in DdNames, fault \in DdFaults :
      \E r \in {PoolManager_create_database(ddCluster, db_name, fault)} :
        /\ ddCluster' = r.cluster
        /\ ddStatements' = r.statements
        /\ ddResult' = r.result
        /\ UNCHANGED <<migVars, tblVars, fnVars, crVars, gateVars, pmVars,
                       sdVars, vfVars, rtVars, tyVars, ckVars>>

(***************************************************************************)
(* TypeChecker::check_compatibility on pairs of type names                 *)
(***************************************************************************)

\* Type names as table files and information_schema spell them.
TypeNames ==
    { "bool", "boolean", "BOOL", "BOOLEAN", "Boolean",
      "int4", "integer", "INT4", "INTEGER", "Integer", "INT",
      "BIGINT", "INT8", "SMALLINT", "INT2",
      "TEXT", "VARCHAR", "CHAR", "VARCHAR(50)", "VARCHAR(100)", "CHAR(10)",
      "CHARACTER VARYING(50)",
      "NUMERIC", "DECIMAL", "NUMERIC(10,2)", "NUMERIC(15,4)", "NUMERIC(10)",
      "REAL", "DOUBLE PRECISION", "FLOAT8",
      "DATE", "TIMESTAMP", "TIMESTAMPTZ", "TIMESTAMP WITH TIME ZONE",
      "UUID", "JSON", "JSONB", "SERIAL", "BIGSERIAL" }

NotChecked == ""

TyInit ==
    /\ tyPair \in [from : TypeNames, to : TypeNames]
    /\ tyForward = NotChecked
    /\ tyReverse = NotChecked

\* check_compatibility(from, to)
CheckForward ==
    /\ tyForward = NotChecked
    /\ tyForward' = check_compatibility(tyPair.from, tyPair.to)
    /\ UNCHANGED <<tyPair, tyReverse>>
    /\ UNCHANGED <<migVars, tblVars, fnVars, crVars, gateVars, pmVars,
                   sdVars, vfVars, rtVars, ddVars, ckVars>>

\* check_compatibility(to, from)
CheckReverse ==
    /\ tyReverse = NotChecked
    /\ tyReverse' = check_compatibility(tyPair.to, tyPair.from)
    /\ UNCHANGED <<tyPair, tyForward>>
    /\ UNCHANGED <<migVars, tblVars, fnVars, crVars, gateVars, pmVars,
                   sdVars, vfVars, rtVars, ddVars, ckVars>>

(***************************************************************************)
(* Artifact checksums (tables.rs, functions.rs, custom_types.rs,           *)
(* migration.rs)                                                           *)
(***************************************************************************)

\* Texts of one artifact file that differ only in comments, whitespace runs
\* and letter case.
CkTexts ==
    { "CREATE TABLE t",
      "create table t",
      "Create  Table\n\tt",
      " CREATE TABLE t\n",
      "CREATE TABLE t -- c",
      "-- c\nCREATE TABLE t",
      "CREATE /* c */ TABLE t",
      "CREATE TABLE t /* a\nb */",
      "/* -- */ CREATE TABLE t" }

CkKinds == {"tables", "functions", "types", "migrations"}

Whitespace == {" ", "\n", "\t"}

\* The text has pat at position i (a regex literal matching there).
starts_at(t, i, pat) ==
    /\ i + Len(pat) - 1 <= Len(t)
    /\ SubSeq(t, i, i + Len(pat) - 1) = pat

\* The first position at or after i that holds a newline, Len(t) + 1 when
\* there is none ([^\n]*).
RECURSIVE line_end(_, _)
line_end(t, i) ==
    IF i > Len(t) \/ char_at(t, i) = "\n" THEN i ELSE line_end(t, i + 1)

\* Regex --[^\n]* replaced by "" (replace_all, from position i).
RECURSIVE remove_single_line(_, _)
remove_single_line(t, i) ==
    IF i > Len(t) THEN ""
    ELSE IF starts_at(t, i, "--")
    THEN remove_single_line(t, line_end(t, i + 2))
    ELSE char_at(t, i) \o remove_single_line(t, i + 1)

\* The first position at or after i where a comment closes, 0 when there is
\* none ([\s\S]*?\*/).
RECURSIVE comment_close(_, _)
comment_close(t, i) ==
    IF i >= Len(t) THEN 0
    ELSE IF starts_at(t, i, "*/") THEN i
    ELSE comment_close(t, i + 1)

\* Regex /\*[\s\S]*?\*/ replaced by "" (replace_all, from position i).
RECURSIVE remove_multi_line(_, _)
remove_multi_line(t, i) ==
    IF i > Len(t) THEN ""
    ELSE IF starts_at(t, i, "/*") /\ comment_close(t, i + 2) > 0
    THEN remove_multi_line(t, comment_close(t, i + 2) + 2)
    ELSE char_at(t, i) \o remove_multi_line(t, i + 1)

\* FunctionDeployer::remove_comments, CustomTypeManager::remove_comments
remove_comments(sql) ==
    remove_multi_line(remove_single_line(sql, 1), 1)

\* The first position at or after i that holds no whitespace (\s+).
RECURSIVE whitespace_end(_, _)
whitespace_end(t, i) ==
    IF i <= Len(t) /\ char_at(t, i) \in Whitespace
    THEN whitespace_end(t, i + 1) ELSE i

\* Regex \s+ replaced by " " (replace_all, from position i).
RECURSIVE collapse_whitespace(_, _)
collapse_whitespace(t, i) ==
    IF i > Len(t) THEN ""
    ELSE IF char_at(t, i) \in Whitespace
    THEN " " \o collapse_whitespace(t, whitespace_end(t, i))
    ELSE char_at(t, i) \o collapse_whitespace(t, i + 1)

\* char::to_lowercase on the letters of the texts.
lower_char(c) ==
    CASE c = "A" -> "a" [] c = "B" -> "b" [] c = "C" -> "c" [] c = "E" -> "e"
      [] c = "L" -> "l" [] c = "R" -> "r" [] c = "T" -> "t"
      [] OTHER -> c

\* str::to_lowercase on file texts.
RECURSIVE sql_to_lowercase(_)
sql_to_lowercase(t) ==
    IF t = "" THEN ""
    ELSE lower_char(char_at(t, 1)) \o sql_to_lowercase(Tail(t))

\* normalize_for_checksum (functions.rs, custom_types.rs)
normalize_for_checksum(sql) ==
    sql_to_lowercase(str_trim(collapse_whitespace(sql, 1)))

\* SHA-256 in hexadecimal, taken to be free of collisions: the digest
\* stands for the bytes digested.
sha256(bytes) == <<"sha256", bytes>>

\* tables.rs: compute_checksum
tables_compute_checksum(content) ==
    sha256(normalize_for_checksum(remove_comments(content)))

\* functions.rs: the body_checksum parse_signature computes
compute_body_checksum(sql) == sha256(normalize_for_checksum(sql))

function_body_checksum(content) ==
    compute_body_checksum(remove_comments(content))

\* custom_types.rs: the checksum parse_type computes
custom_type_checksum(content) ==
    sha256(normalize_for_checksum(remove_comments(content)))

\* migration.rs: compute_checksum
migration_compute_checksum(content) == sha256(content)

NoChecksums == <<>>

CkInit ==
    /\ ckInput \in [kind : CkKinds, a : CkTexts, b : CkTexts]
    /\ ckSums = NoChecksums

CkFrame ==
    /\ UNCHANGED ckInput
    /\ UNCHANGED <<migVars, tblVars, fnVars, crVars, gateVars, pmVars,
                   sdVars, vfVars, rtVars, ddVars, tyVars>>

\* TableDeployer::parse_table_definition on both texts.
ChecksumTables ==
    /\ ckInput.kind = "tables" /\ ckSums = NoChecksums
    /\ ckSums' = <<tables_compute_checksum(ckInput.a),
                   tables_compute_checksum(ckInput.b)>>
    /\ CkFrame

\* FunctionDeployer::parse_signature on both texts.
ChecksumFunctions ==
    /\ ckInput.kind = "functions" /\ ckSums = NoChecksums
    /\ ckSums' = <<function_body_checksum(ckInput.a),
                   function_body_checksum(ckInput.b)>>
    /\ CkFrame

\* CustomTypeManager::parse_type on both texts.
ChecksumTypes ==
    /\ ckInput.kind = "types" /\ ckSums = NoChecksums
    /\ ckSums' = <<custom_type_checksum(ckInput.a),
                   custom_type_checksum(ckInput.b)>>
    /\ CkFrame

\* MigrationRunner::find_migration_files on both texts.
ChecksumMigrations ==
    /\ ckInput.kind = "migrations" /\ ckSums = NoChecksums
    /\ ckSums' = <<migration_compute_checksum(ckInput.a),
                   migration_compute_checksum(ckInput.b)>>
    /\ CkFrame

(***************************************************************************)
(* Idle values of the subsystems a specification does not exercise         *)
(***************************************************************************)

TblIdle ==
    /\ tblDisk = <<>>
    /\ tblDb = {}
    /\ tblTracking = {}
    /\ tblExec = <<>>
    /\ tblOutcome = NoTblOutcome

FnIdle ==
    /\ fnDisk = <<>>
    /\ fnTracking = {}
    /\ fnResident = {}
    /\ fnLog = <<>>
    /\ fnOutcome = NoFnOutcome
    /\ fnChangelog = <<>>

CrIdle == CrInit

GateIdle ==
    /\ gateDesired = <<>>
    /\ gateLive = <<>>
    /\ gateSql = <<>>
    /\ gateOutcome = NoGateOutcome

PmIdle == PmInit

SdIdle ==
    /\ sdDisk = <<>>
    /\ sdRows = <<>>
    /\ sdOutcome = NoSdOutcome

VfIdle ==
    /\ vfInput = <<>>
    /\ vfResult = NoVerification

RtIdle ==
    /\ rtRequest = <<>>
    /\ rtName = NoName

DdIdle == DdInit

TyIdle ==
    /\ tyPair = <<>>
    /\ tyForward = NotChecked
    /\ tyReverse = NotChecked

CkIdle ==
    /\ ckInput = <<>>
    /\ ckSums = NoChecksums

MoreIdle == DdIdle /\ TyIdle /\ CkIdle

RestIdle == SdIdle /\ VfIdle /\ RtIdle /\ MoreIdle

(***************************************************************************)
(* Specifications                                                          *)
(***************************************************************************)

\* verify_schema applied to every combination of directories and database.
InitVerify == MigIdle /\ TblIdle /\ FnIdle /\ CrIdle /\ GateIdle /\ PmIdle /\ SdIdle /\ VfInit /\ RtIdle /\ MoreIdle
NextVerify == VerifySchema
SpecVerify == InitVerify /\ [][NextVerify]_vars

\* The database name derived for every request.
InitRouter == MigIdle /\ TblIdle /\ FnIdle /\ CrIdle /\ GateIdle /\ PmIdle /\ SdIdle /\ VfIdle /\ RtInit /\ MoreIdle
NextRouter == DeriveTenantName \/ DeriveSchemaName
SpecRouter == InitRouter /\ [][NextRouter]_vars

\* check_compatibility applied to every pair of type names, both ways.
InitTypes == MigIdle /\ TblIdle /\ FnIdle /\ CrIdle /\ GateIdle /\ PmIdle /\ SdIdle /\ VfIdle /\ RtIdle /\ DdIdle /\ TyInit /\ CkIdle
NextTypes == CheckForward \/ CheckReverse
SpecTypes == InitTypes /\ [][NextTypes]_vars

\* The checksums of two texts of one artifact, for every artifact kind.
InitChecksum == MigIdle /\ TblIdle /\ FnIdle /\ CrIdle /\ GateIdle /\ PmIdle /\ SdIdle /\ VfIdle /\ RtIdle /\ DdIdle /\ TyIdle /\ CkInit
NextChecksum ==
    \/ ChecksumTables
    \/ ChecksumFunctions
    \/ ChecksumTypes
    \/ ChecksumMigrations
SpecChecksum == InitChecksum /\ [][NextChecksum]_vars

\* Repeated PoolManager::create_database calls on one cluster.
InitDdl == MigIdle /\ TblIdle /\ FnIdle /\ CrIdle /\ GateIdle /\ PmIdle /\ SdIdle /\ VfIdle /\ RtIdle /\ DdInit /\ TyIdle /\ CkIdle
NextDdl == PoolCreateDatabase
SpecDdl == InitDdl /\ [][NextDdl]_vars

\* Repeated seeder runs on one database over a fixed seeders/ directory.
InitSeed == MigIdle /\ TblIdle /\ FnIdle /\ CrIdle /\ GateIdle /\ PmIdle /\ SdInit /\ VfIdle /\ RtIdle /\ MoreIdle
NextSeed == RunSeeders
SpecSeed == InitSeed /\ [][NextSeed]_vars

\* Repeated migrate runs on one database over a fixed migrations/ directory.
InitMig == MigInit /\ TblIdle /\ FnIdle /\ CrIdle /\ GateIdle /\ PmIdle /\ RestIdle
NextMig == RunMigrations
SpecMig == InitMig /\ [][NextMig]_vars

\* Repeated table deployments on one database, fresh at the start, over a
\* fixed tables/ directory.
InitTables == MigIdle /\ TblInit /\ FnIdle /\ CrIdle /\ GateIdle /\ PmIdle /\ RestIdle
NextTables == DeployTables
SpecTables == InitTables /\ [][NextTables]_vars

\* Deployments of the functions/ directory on one database, fresh at the
\* start, with fa.pssql rewritten between the deployments.
InitFn == MigIdle /\ TblIdle /\ FnInit /\ CrIdle /\ GateIdle /\ PmIdle /\ RestIdle
NextFn == DeployFunctions
SpecFn == InitFn /\ [][NextFn]_vars

\* POST /database/create requests against one cluster, empty at the start.
InitCreate == MigIdle /\ TblIdle /\ FnIdle /\ CrInit /\ GateIdle /\ PmIdle /\ RestIdle
NextCreate == CreateDatabase
SpecCreate == InitCreate /\ [][NextCreate]_vars

\* Concurrent POST /database/create requests, one per task.
NextCreateRace ==
    \E t \in CrTaskIds :
        \/ ReceiveCreate(t)
        \/ CheckDatabaseExists(t)
        \/ RecheckDatabaseExists(t)
        \/ CreateDatabaseSql(t)
        \/ DeployCreated(t)
        \/ RecordReadInfo(t)
        \/ RecordSaveInfo(t)
SpecCreateRace == InitCreate /\ [][NextCreateRace]_vars

\* POST /v2/migrate requests over a fixed tables/ directory.
InitGate == MigIdle /\ TblIdle /\ FnIdle /\ CrIdle /\ GateInit /\ PmIdle /\ RestIdle
NextGate == MigrateV2
SpecGate == InitGate /\ [][NextGate]_vars

\* The request tasks and the cleanup task of one pool manager, interleaved.
InitPool == MigIdle /\ TblIdle /\ FnIdle /\ CrIdle /\ GateIdle /\ PmInit /\ RestIdle
NextPool ==
    \/ \E p \in Requesters : RequestStep(p)
    \/ CleanupStep
SpecPool == InitPool /\ [][NextPool]_vars

\* The same tasks, one operation at a time: a task takes a step only while
\* no other task is inside an operation.
NextPoolSeq ==
    \/ \E p \in Requesters :
          /\ \A q \in Requesters \ {p} : pmProc[q].pc = "idle"
          /\ pmCleaner.pc = "idle"
          /\ RequestStep(p)
    \/ /\ \A q \in Requesters : pmProc[q].pc = "idle"
       /\ CleanupStep
SpecPoolSeq == InitPool /\ [][NextPoolSeq]_vars

(***************************************************************************)
(* Claims about the migration runner                                       *)
(***************************************************************************)

\* What the files on disk really define and reference.
MigDefines(m) == {migDisk[m][k].name : k \in DOMAIN migDisk[m]}
MigReferences(m) == UNION {migDisk[m][k].depends_on : k \in DOMAIN migDisk[m]}

\* Migration A has a foreign key to a table defined in another migration B.
MigRefs(A, B) == A # B /\ MigReferences(A) \cap MigDefines(B) # {}

\* The migrations A depends on, directly or transitively.
RECURSIVE MigReachFrom(_, _)
MigReachFrom(S, n) ==
    IF n = 0 THEN S
    ELSE MigReachFrom(
             S \cup {B \in DOMAIN migDisk : \E A \in S : MigRefs(A, B)}, n - 1)

MigDependsOn(A, B) ==
    B \in MigReachFrom({C \in DOMAIN migDisk : MigRefs(A, C)},
                       Cardinality(DOMAIN migDisk))

MigIndependent(A, B) == A # B /\ ~MigDependsOn(A, B) /\ ~MigDependsOn(B, A)

\* C3: two migrations of one run that have no dependency relation, direct
\* or transitive, are executed in ascending lexical order of their file
\* names.
C3_IndependentRunLexically ==
    \A i, j \in DOMAIN migExec :
        (i < j /\ MigIndependent(migExec[i], migExec[j]))
            => NameRank(migExec[i]) < NameRank(migExec[j])

\* C4: when migration A has a foreign key to a table defined in a different
\* migration B and both are executed by a run, B is executed before A,
\* whatever the file names.
C4_ReferencedMigrationFirst ==
    \A A, B \in Range(migExec) :
        MigRefs(A, B) => IndexOf(migExec, B) < IndexOf(migExec, A)

C6_StopAtFirstFailure ==
    (migOutcome.kind = "error" /\ migOutcome.failed # "")
        => \A i \in DOMAIN migExec :
               IndexOf(migPlan, migExec[i]) <= IndexOf(migPlan, migOutcome.failed)

\* C6 witness: a batch fails while an unapplied migration is still to come.
C6_Witness ==
    /\ migOutcome.kind = "error"
    /\ migOutcome.failed # ""
    /\ migOutcome.failed \in Range(migExec)
    /\ \E n \in Range(migPlan) :
          /\ n \notin Range(migApplied)
          /\ IndexOf(migPlan, n) > IndexOf(migPlan, migOutcome.failed)

(***************************************************************************)
(* Claims about the table deployer                                         *)
(***************************************************************************)

\* The tables of the set that table T references, directly or
\* transitively (T itself only when a foreign-key path leads back to it).
RECURSIVE TblReachFrom(_, _)
TblReachFrom(S, n) ==
    IF n = 0 THEN S
    ELSE TblReachFrom(
             S \cup {R \in DOMAIN tblDisk : \E T \in S : R \in tblDisk[T]}, n - 1)

TblReferenced(T) ==
    TblReachFrom(tblDisk[T] \cap DOMAIN tblDisk, Cardinality(DOMAIN tblDisk))

\* The tables that lie on a foreign-key cycle.
TblOnCycle == {T \in DOMAIN tblDisk : T \in TblReferenced(T)}

TblAcyclic == TblOnCycle = {}

\* The whole table set written as one SQL text, in file order.
TblAsOneText ==
    LET files == find_table_files(tblDisk)
    IN  [i \in DOMAIN files |->
            [name |-> files[i], depends_on |-> tblDisk[files[i]]]]

\* C7: for an acyclic table set the creation order holds every table of
\* the set and places each referenced table of the set before the tables
\* that reference it: in the deployer's order, in the order in which the
\* CREATE TABLE batches are sent, and in the analyzer's creation order.
C7_ReferencedTableFirst ==
    TblAcyclic =>
        LET ord == tbl_order_by_dependencies(
                       parse_table_files(tblDisk, find_table_files(tblDisk)))
            ana == analyze_sql(TblAsOneText)
        IN  /\ ord.ok
            /\ Range(ord.order) = DOMAIN tblDisk
            /\ \A T, R \in DOMAIN tblDisk :
                  R \in tblDisk[T]
                      => IndexOf(ord.order, R) < IndexOf(ord.order, T)
            /\ \A i, j \in DOMAIN tblExec :
                  i < j => tblExec[j] \notin tblDisk[tblExec[i]]
            /\ ana.ok
            /\ \A T \in DOMAIN tblDisk : \A R \in tblDisk[T] :
                  IndexOf(ana.creation_order, R) < IndexOf(ana.creation_order, T)

\* C7 witness: a deployment that created three tables of an acyclic set in
\* which a table references one whose name sorts before its own.
C7_Witness ==
    /\ TblAcyclic
    /\ tblOutcome.kind = "ok"
    /\ Len(tblExec) = 3
    /\ \E T, R \in Range(tblExec) :
          R \in tblDisk[T] /\ NameRank(R) < NameRank(T)
    /\ \E T, R \in Range(tblExec) :
          R \in tblDisk[T] /\ NameRank(T) < NameRank(R)

\* C8: when the foreign keys of the table set form a cycle, a deployment
\* that gets as far as ordering the tables fails with
\* SchemaExtractionFailed (HTTP 400), sends no table's SQL, and names
\* exactly the tables on the cycle.
C8_CycleRejectedNamingCycle ==
    (/\ ~TblAcyclic
     /\ tblOutcome.kind # "none"
     /\ ~(tblOutcome.error = "MigrationFailed" /\ tblOutcome.failed = ""))
        => /\ tblOutcome.kind = "error"
           /\ tblOutcome.error = "SchemaExtractionFailed"
           /\ http_status(tblOutcome.error) = 400
           /\ tblExec = <<>>
           /\ tblDb = {}
           /\ tblOutcome.names = TblOnCycle

(***************************************************************************)
(* Claims about the function deployer                                      *)
(***************************************************************************)

\* The statement `op` for file `file` occurs in log at position i.
FnLogged(log, i, op, file) ==
    i \in DOMAIN log /\ log[i].op = op /\ log[i].file = file

\* Two versions of a file that differ only in parameter names or modes.
OnlyNamesOrModesDiffer(old, new) ==
    /\ old # new
    /\ old.name = new.name
    /\ Len(old.params) = Len(new.params)
    /\ \A i \in DOMAIN old.params : old.params[i].type = new.params[i].type

\* C9: when fa.pssql is redeployed with a changed identity (name or
\* parameter types), every overload tracked for the file before the
\* deployment is dropped and its tracking row deleted before the new
\* definition is executed, and after the deployment that overload is
\* neither resident nor tracked.
C9_OldOverloadsDropped ==
    [][\A r \in fnTracking :
        LET old == r.body_checksum
            new == fnDisk'["fa.pssql"]
        IN  (/\ r.source_file = "fa.pssql"
             /\ pg_identity(old) # pg_identity(new)
             /\ \E j \in DOMAIN fnLog' : FnLogged(fnLog', j, "exec", "fa.pssql"))
            => /\ \E i, j \in DOMAIN fnLog' :
                     /\ i < j
                     /\ FnLogged(fnLog', i, "drop", "fa.pssql")
                     /\ fnLog'[i].name = r.function_name
                     /\ fnLog'[i].types = r.param_types
                     /\ FnLogged(fnLog', j, "exec", "fa.pssql")
               /\ \E i, j \in DOMAIN fnLog' :
                     /\ i < j
                     /\ FnLogged(fnLog', i, "delete", "fa.pssql")
                     /\ fnLog'[i].name = r.function_name
                     /\ fnLog'[i].types = r.param_types
                     /\ FnLogged(fnLog', j, "exec", "fa.pssql")
               /\ r \notin fnTracking'
               /\ pg_identity(old) \notin fnResident']_vars

\* C10: when the deployed version of fa.pssql and its new version differ
\* only in parameter names or modes, both have the same drop signature,
\* and a successful deployment sends no DROP FUNCTION for the file and
\* executes the file exactly once.
C10_RenameKeepsIdentity ==
    [][\A r \in fnTracking :
        LET old == r.body_checksum
            new == fnDisk'["fa.pssql"]
        IN  (/\ r.source_file = "fa.pssql"
             /\ OnlyNamesOrModesDiffer(old, new)
             /\ fnOutcome'.kind = "ok")
            => /\ drop_signature(parse_signature(old))
                     = drop_signature(parse_signature(new))
               /\ \A i \in DOMAIN fnLog' : ~FnLogged(fnLog', i, "drop", "fa.pssql")
               /\ Cardinality({i \in DOMAIN fnLog' :
                                  FnLogged(fnLog', i, "exec", "fa.pssql")}) = 1]_vars

(***************************************************************************)
(* Claims about POST /database/create                                      *)
(***************************************************************************)

\* C2: when a step after the creation of the database fails (the request
\* created the database and answers with an error), the database no longer
\* exists in the cluster once the error response is returned.
C2_FailedCreateDropsDatabase ==
    (crOutcome.status >= 400 /\ "create_database" \in Range(crSteps))
        => crOutcome.database \notin clusterDbs

(***************************************************************************)
(* Claims about POST /v2/migrate                                           *)
(***************************************************************************)

\* The request answered by the step reached the loop over the databases
\* and met no failing step.
GateRequestServed ==
    /\ gateOutcome'.status # 0
    /\ gateOutcome'.error \notin {"InvalidRequest", "DatabaseNotFound"}
    /\ gateOutcome'.fault = "none"

\* The diff of the desired tables against the live schema of the first
\* database, before the request, holds a DataLoss or Incompatible change.
GateDiffUnsafe ==
    ~is_safe(diff_schemas(parse_desired_schema(gateDesired), gateLive))

\* C1: a migrate request with force = false whose diff of the desired
\* tables against the live schema holds a DataLoss or Incompatible change
\* is rejected with MigrationFailed before any SQL is issued: no statement
\* at all was executed against any database of the batch.
C1_UnsafeDiffRejectedBeforeSql ==
    [][ (GateRequestServed /\ ~gateOutcome'.force /\ GateDiffUnsafe)
            => /\ gateOutcome'.error = "MigrationFailed"
               /\ gateOutcome'.migration = "schema validation"
               /\ gateSql' = <<>> ]_vars

(***************************************************************************)
(* Claims about the functions tracking table                               *)
(***************************************************************************)

\* The tracking rows whose source_file is `file`.
FnRowsOf(file) == {r \in fnTracking : r.source_file = file}

\* The current content of `file` went through the last deploy_functions
\* call without an error: the call returned Ok, or it failed in a file
\* that sorts after `file`.
FnDeployedNow(file) ==
    \/ fnOutcome.kind = "ok"
    \/ /\ fnOutcome.kind = "error"
       /\ fnOutcome.failed \in FnFiles
       /\ NameRank(file) < NameRank(fnOutcome.failed)

\* The one tracking row of `file` carries the name and the parameter types
\* of the file's parsed signature.
FnTrackedOnce(file) ==
    /\ Cardinality(FnRowsOf(file)) = 1
    /\ \A r \in FnRowsOf(file) :
          /\ r.function_name = parse_signature(fnDisk[file]).name
          /\ r.param_types = param_types(parse_signature(fnDisk[file]))

FnConvergedRedeploy ==
    /\ fnOutcome.kind = "ok"
    /\ fnDisk' = fnDisk
    /\ fnOutcome'.kind = "ok"

GateVerified == \E i \in DOMAIN gateSql : gateSql[i] = <<GateDb1, "verify_schema">>

\* What the verification of the last request had before it: gateLive is
\* the schema after the request's migrations.  Something is missing or
\* mismatched when a declared table is missing, a DataLoss or Incompatible
\* change separates the live tables from the declared ones, or an
\* extension, custom type or seeder record is missing.
GateVerifyFindsIssue ==
    \/ verify_tables(gateDesired, gateLive).missing # {}
    \/ verify_tables(gateDesired, gateLive).mismatches # {}
    \/ gateOutcome.fault = "verification_not_passed"

\* C13: when the post-migration verification finds anything missing or
\* mismatched, a request with force = false returns an error, and a
\* request with force = true that meets no failing step completes with
\* HTTP 200 and status completed_with_warnings; the status is completed
\* only when the verification passed.
C13_VerificationOutcome ==
    /\ (GateVerified /\ GateVerifyFindsIssue /\ ~gateOutcome.force)
          => /\ gateOutcome.status >= 400
             /\ gateOutcome.error = "MigrationFailed"
             /\ gateOutcome.migration = "schema verification"
    /\ (/\ GateVerified /\ GateVerifyFindsIssue /\ gateOutcome.force
        /\ gateOutcome.fault \in {"none", "verification_not_passed"})
          => /\ gateOutcome.status = 200
             /\ gateOutcome.response = "completed_with_warnings"
    /\ gateOutcome.response = "completed"
          => /\ gateOutcome.status = 200
             /\ GateVerified
             /\ ~GateVerifyFindsIssue

\* A forced request whose verification found a mismatch and which
\* completed with warnings.
C13_Witness ==
    /\ GateVerified
    /\ verify_tables(gateDesired, gateLive).mismatches # {}
    /\ gateOutcome.force
    /\ gateOutcome.status = 200
    /\ gateOutcome.response = "completed_with_warnings"

(***************************************************************************)
(* Claims about the pool manager                                           *)
(***************************************************************************)

\* C14: in every state reached by any interleaving of pool lookups and
\* creations, LRU evictions and idle cleanups, once no operation is in
\* progress the reserved-connection counter equals the per-pool maximum
\* times the number of entries of the pool map.
C14_CounterMatchesEntries ==
    PmQuiescent => pmTotal = PerPool * Cardinality(DOMAIN pmPools)

\* C15: the reserved-connection counter never underflows: no step subtracts
\* the per-pool amount from a counter value smaller than that amount.
C15_CounterNeverUnderflows ==
    [][pmTotal' = fetch_sub(pmTotal, PerPool)
          => ~(0 <= pmTotal /\ pmTotal < PerPool)]_vars

\* C16: over any sequence of non-overlapping operations, a pool is admitted
\* (the request is past the budget check, about to insert its entry or to
\* add to the counter) only while reserved connections plus the per-pool
\* maximum are within the global budget, and the reserved connection count
\* never exceeds the global budget.
C16_BudgetRespected ==
    /\ 0 <= pmTotal
    /\ pmTotal <= MaxTotal
    /\ \A p \in Requesters :
          pmProc[p].pc \in {"connect", "add"}
             => pmTotal + PerPool <= MaxTotal

\* The budget is used up, a request for a database that is not cached has
\* evicted one of the two entries and is about to decrease the counter.
C16_Witness ==
    \E p \in Requesters :
        /\ pmProc[p].pc = "sub"
        /\ pmTotal = MaxTotal
        /\ Cardinality(DOMAIN pmPools) = 1
        /\ pmProc[p].db \notin DOMAIN pmPools

\* C17: an eviction never removes an entry that was looked up (or created)
\* more recently than an entry that stays in the map.
C17_EvictsLeastRecentlyUsed ==
    [][\A p \in Requesters :
          (pmProc[p].pc = "scan" /\ pmProc'[p].pc = "sub")
             => \A d \in DOMAIN pmPools' :
                   ~(pmPools[pmProc[p].oldest_key] > pmPools[d])]_vars

\* C18: an idle-cleanup pass removes exactly the entries whose last_used
\* age exceeds the idle timeout: an entry the pass removes has, when it is
\* removed, a last_used older than the timeout, and when the pass returns
\* no entry that old is left in the map.
C18_CleanupRemovesExactlyIdle ==
    [][/\ (pmCleaner.pc = "remove" /\ pmCleaner'.pc = "sub")
          => duration_since(pmCleaner.now,
                            pmPools[Head(pmCleaner.to_remove)]) > IdleTimeout
       /\ (pmCleaner.pc = "remove" /\ pmCleaner'.pc = "idle")
          => \A d \in DOMAIN pmPools :
                ~(duration_since(pmCleaner.now, pmPools[d]) > IdleTimeout)]_vars

(***************************************************************************)
(* Claims about the order of the create pipeline                           *)
(***************************************************************************)

\* The deployment steps in the order the claim gives them.
DeployOrder ==
    << "ensure_changelog_table", "install_extensions", "deploy_types",
       "deploy_tables", "deploy_functions", "run_seeders_on_register" >>

\* The deployment steps the last request completed, in the order it
\* completed them.
CrDeploySteps == SelectSeq(crSteps, LAMBDA step : step \in Range(DeployOrder))

\* C20: on a fresh database (one the request has just created) the
\* deployment steps run in exactly the order ensure changelog table,
\* install extensions, deploy custom types, deploy tables, deploy
\* functions, run seeders, each step starting only after the previous one
\* completed successfully: the completed steps are a prefix of that order,
\* a step that failed is the one right after the completed ones, and a
\* request answered 201 completed all six.
C20_PipelineOrder ==
    /\ Len(CrDeploySteps) <= Len(DeployOrder)
    /\ \A i \in DOMAIN CrDeploySteps : CrDeploySteps[i] = DeployOrder[i]
    /\ CrDeploySteps # <<>> => "create_database" \in Range(crSteps)
    /\ crOutcome.failed \in Range(DeployOrder)
          => crOutcome.failed = DeployOrder[Len(CrDeploySteps) + 1]
    /\ crOutcome.status = 201 => CrDeploySteps = DeployOrder

\* A request that created its database and whose deployment failed at the
\* tables, after the custom types were deployed.
C20_Witness ==
    /\ crOutcome.failed = "deploy_tables"
    /\ "create_database" \in Range(crSteps)
    /\ Len(CrDeploySteps) = 3
    /\ CrDeploySteps[3] = "deploy_types"
    /\ crOutcome.database \in clusterDbs

(***************************************************************************)
(* Claims about concurrent create requests                                 *)
(***************************************************************************)

\* The request of task t executed a deployment step.
CrRanPipeline(t) == \E i \in DOMAIN crTasks[t].steps :
                       crTasks[t].steps[i] \in Range(DeployOrder)

\* C19: for a given database name at most one create request ever runs
\* the deployment pipeline, and a request that arrived while the database
\* existed is answered DatabaseAlreadyExists (409) without a deployment
\* step.
C19_OneCreatePerName ==
    /\ \A t1, t2 \in CrTaskIds :
          (t1 # t2 /\ crTasks[t1].db = crTasks[t2].db)
             => ~(CrRanPipeline(t1) /\ CrRanPipeline(t2))
    /\ \A t \in CrTaskIds :
          (crTasks[t].pc = "done" /\ crTasks[t].existed)
             => /\ crTasks[t].outcome.status = 409
                /\ crTasks[t].outcome.error = "DatabaseAlreadyExists"
                /\ crTasks[t].steps = <<>>

(***************************************************************************)
(* Claims about the order of simultaneously ready tables and about          *)
(* foreign keys to tables outside the set                                  *)
(***************************************************************************)

\* The creation order the deployer computes for the tables/ directory.
TblOrder ==
    tbl_order_by_dependencies(
        parse_table_files(tblDisk, find_table_files(tblDisk)))

\* C23: among tables that are ready at the same time (all their
\* dependencies inside the set already emitted) the creation order emits
\* the lexically smallest name first: a table is never emitted before a
\* table of smaller name that was ready at that moment.
C23_SmallestReadyFirst ==
    TblAcyclic =>
        \A i, j \in DOMAIN TblOrder.order :
            (/\ i < j
             /\ (tblDisk[TblOrder.order[j]] \cap DOMAIN tblDisk)
                    \subseteq {TblOrder.order[k] : k \in 1..(i - 1)})
                => NameRank(TblOrder.order[i]) < NameRank(TblOrder.order[j])

\* The table set with every foreign key to a table outside the set removed.
TblWithoutExternal ==
    LET files == find_table_files(tblDisk)
    IN  [i \in DOMAIN files |->
            [name |-> files[i],
             depends_on |-> tblDisk[files[i]] \cap DOMAIN tblDisk]]

\* C24: foreign keys to tables outside the input set are external: they
\* never delay a table and never cause a cycle error (the order is the one
\* computed without them), and the creation order, of the deployer and of
\* the analyzer, contains exactly the input tables.
C24_ExternalReferencesIgnored ==
    TblAcyclic =>
        LET ana == analyze_sql(TblAsOneText)
        IN  /\ TblOrder.ok
            /\ TblOrder = tbl_order_by_dependencies(TblWithoutExternal)
            /\ Range(TblOrder.order) = DOMAIN tblDisk
            /\ ana.ok
            /\ Range(ana.creation_order) = DOMAIN tblDisk

\* C22: a run of the seeders leaves every table that holds a row as it is, and
\* reports each file aimed at such a table as skipped whole (inserted 0,
\* skipped = all its records); within one run, a file that follows a file
\* which filled the same table is skipped whole as well.
C22_NonEmptyTableSkipped ==
    [][\A t \in SeederTables :
          LET res == sdOutcome'.results
          IN  /\ sdRows[t] # <<>> =>
                    /\ sdRows'[t] = sdRows[t]
                    /\ \A i \in DOMAIN res :
                          res[i].table = t =>
                              /\ res[i].inserted = 0
                              /\ res[i].skipped = res[i].total_expected
              /\ \A i, j \in DOMAIN res :
                    (i < j /\ res[i].table = t /\ res[j].table = t
                           /\ res[i].inserted > 0) =>
                        /\ res[j].inserted = 0
                        /\ res[j].skipped = res[j].total_expected]_vars

\* A run has skipped a file with records because its table held a row.
C22_Witness ==
    /\ sdOutcome.kind = "ok"
    /\ \E i \in DOMAIN sdOutcome.results :
          /\ sdOutcome.results[i].inserted = 0
          /\ sdOutcome.results[i].skipped > 0
          /\ sdRows[sdOutcome.results[i].table] # <<>>

\* C21: when the first deploy_functions call on a fresh database (no
\* tracking row, no function, nothing deployed before) returns Ok, every
\* file of functions/ has a tracking row that names the file and holds the
\* checksum of the file's normalised text.
C21_FreshDeployTracksEveryFile ==
    [][(/\ fnTracking = {}
        /\ fnResident = {}
        /\ fnOutcome = NoFnOutcome
        /\ fnOutcome'.kind = "ok")
          => \A file \in DOMAIN fnDisk' :
                \E r \in fnTracking' :
                    /\ r.source_file = file
                    /\ r.body_checksum = fnDisk'[file]]_vars

\* C25: in a request with force = false over a tables/ directory that
\* declares tables, every database that receives run_migrations had its own
\* live schema queried by the diff gate earlier in the request (so no
\* database is migrated while its own diff is unexamined or unsafe).
C25_EveryDatabaseGated ==
    (~gateOutcome.force /\ DOMAIN parse_desired_schema(gateDesired) # {})
        => \A j \in DOMAIN gateSql :
              gateSql[j][2] = "run_migrations"
                  => \E i \in 1..(j - 1) :
                        gateSql[i] = <<gateSql[j][1], "query_current_schema">>

(***************************************************************************)
(* Claims about the schema verifier                                        *)
(***************************************************************************)

\* C26 (as stated): a verification has passed exactly when, in every
\* section that has them, the expected set equals the found set.
C26_PassedIffExpectedEqualsFound ==
    vfResult.kind = "ok" =>
        (vfResult.passed <=>
            /\ vfResult.extensions.expected = vfResult.extensions.found
            /\ vfResult.types.expected = vfResult.types.found
            /\ vfResult.tables.expected = vfResult.tables.found)

\* C26 (amended): a verification has passed exactly when no section
\* reports anything missing (every expected extension, type and table is
\* among the found ones, which may be more; no seeder entry) and the tables
\* section reports no mismatch, a mismatch being a DataLoss or Incompatible
\* change of the diff of the declared tables against the live schema.
C26_PassedIffNothingMissingOrMismatched ==
    vfResult.kind = "ok" =>
        (vfResult.passed <=>
            /\ vfResult.extensions.expected \subseteq vfResult.extensions.found
            /\ vfResult.types.expected \subseteq vfResult.types.found
            /\ vfResult.tables.expected \subseteq vfResult.tables.found
            /\ \A ch \in diff_schemas(parse_desired_schema(vfInput.tables_dir),
                                       vfInput.live) :
                  ch.compatibility \notin {"DataLoss", "Incompatible"}
            /\ vfResult.seeders.missing = {}
            /\ vfInput.seeders_valid)

\* A verification that passed although the database holds an extension no
\* file names, with a declared table found in the database.
C26_Witness ==
    /\ vfResult.kind = "ok"
    /\ vfResult.passed
    /\ vfResult.extensions.expected # vfResult.extensions.found
    /\ vfResult.extensions.expected # {}
    /\ vfResult.tables.expected # {}

(***************************************************************************)
(* Claims about the changelog                                              *)
(***************************************************************************)

\* The positions of fnLog' that hold statement `op` for fa.pssql.
FnStatements(op) == {i \in DOMAIN fnLog' : FnLogged(fnLog', i, op, "fa.pssql")}

\* C27: when fa.pssql is redeployed successfully with the tracked function
\* name and new parameter types, exactly one DROP FUNCTION is sent, against
\* the tracked signature, and the file is executed exactly once; the
\* changelog rows written for the deployment hold a function_dropped row
\* for the function and a function_deployed row for it.
C27_SignatureChangeLogged ==
    [][\A r \in fnTracking :
        LET new == parse_signature(fnDisk'["fa.pssql"])
        IN  (/\ r.source_file = "fa.pssql"
             /\ r.function_name = new.name
             /\ r.param_types # param_types(new)
             /\ fnOutcome'.kind = "ok")
            => /\ Cardinality(FnStatements("drop")) = 1
               /\ \A i \in FnStatements("drop") :
                     /\ fnLog'[i].name = r.function_name
                     /\ fnLog'[i].types = r.param_types
               /\ Cardinality(FnStatements("exec")) = 1
               /\ \E k \in DOMAIN fnChangelog' :
                     /\ fnChangelog'[k].change_type = "function_dropped"
                     /\ fnChangelog'[k].object_name = r.function_name
               /\ \E k \in DOMAIN fnChangelog' :
                     /\ fnChangelog'[k].change_type = "function_deployed"
                     /\ fnChangelog'[k].object_name = new.name]_vars

\* The statements alone: one DROP against the tracked signature and one
\* execution of the file.
FnOneDropOneCreate ==
    [][\A r \in fnTracking :
        LET new == parse_signature(fnDisk'["fa.pssql"])
        IN  (/\ r.source_file = "fa.pssql"
             /\ r.function_name = new.name
             /\ r.param_types # param_types(new)
             /\ fnOutcome'.kind = "ok")
            => /\ Cardinality(FnStatements("drop")) = 1
               /\ \A i \in FnStatements("drop") :
                     /\ fnLog'[i].name = r.function_name
                     /\ fnLog'[i].types = r.param_types
               /\ Cardinality(FnStatements("exec")) = 1]_vars

\* The two ways the changelog can fail to take a write during a create
\* request: the statement of ensure_changelog_table fails, or a row insert
\* at the end of the handler fails.
ChangelogFaults == {"ensure_changelog_table", "log_change"}

\* C28: whatever the cluster and the registry hold, a create request gets
\* the same response and has the same effects (steps run, databases,
\* registry records) when a changelog write fails as when every changelog
\* write succeeds.
C28_ChangelogFailureHarmless ==
    \A platform \in CrPlatforms, schema_name \in CrSchemaNames,
       database_id \in CrDatabaseIds, fault \in ChangelogFaults :
        LET written == create_database(clusterDbs, registryDbs, platform,
                                       schema_name, database_id, "none")
            lost == create_database(clusterDbs, registryDbs, platform,
                                    schema_name, database_id, fault)
        IN  /\ lost.outcome = written.outcome
            /\ lost.steps = written.steps
            /\ lost.cluster = written.cluster
            /\ lost.registry = written.registry

\* The same for the row inserts at the end of the handler alone.
CrLogChangeHarmless ==
    \A platform \in CrPlatforms, schema_name \in CrSchemaNames,
       database_id \in CrDatabaseIds :
        LET written == create_database(clusterDbs, registryDbs, platform,
                                       schema_name, database_id, "none")
            lost == create_database(clusterDbs, registryDbs, platform,
                                    schema_name, database_id, "log_change")
        IN  /\ lost.outcome = written.outcome
            /\ lost.steps = written.steps
            /\ lost.cluster = written.cluster
            /\ lost.registry = written.registry

\* C29: no database name is recorded in the registry of two platforms.
C29_NameInOneRegistry ==
    \A r1, r2 \in registryDbs : r1[2] = r2[2] => r1[1] = r2[1]

(***************************************************************************)
(* Claims about database names                                             *)
(***************************************************************************)

\* C30: every database name derived from request fields is a PostgreSQL
\* identifier as the pool manager defines it: 1 to 63 characters, each an
\* ASCII lowercase letter, a digit or an underscore, the first not a digit.
C30_DerivedNameIsIdentifier ==
    rtName.derived => is_valid_identifier(rtName.name)

(***************************************************************************)
(* C31: identifier validation before DDL                                   *)
(***************************************************************************)

AsciiUppercase == {"A", "B", "P"}

SqlPunctuation == {"-", ";", "\"", " ", ".", "'"}

\* The database name inside a CREATE DATABASE statement.
DdNameIn(sql) == SubSeq(sql, 3, Len(sql) - 1)

\* C31: every database name formatted into a DDL statement has passed the
\* validation: it is not empty, not longer than 63 characters, does not
\* start with a digit and holds no uppercase letter and no SQL punctuation.
C31_DdlNamesValidated ==
    \A i \in DOMAIN ddStatements :
      \E name \in {DdNameIn(ddStatements[i])} :
        /\ name # <<>>
        /\ Len(name) <= 63
        /\ name[1] \notin AsciiDigit
        /\ \A k \in DOMAIN name :
              name[k] \notin AsciiUppercase \cup SqlPunctuation

\* A CREATE DATABASE statement was formatted and executed, for a name of 63
\* characters.
C31_Witness ==
    /\ ddStatements # <<>>
    /\ ddResult.ok
    /\ Len(ddResult.db_name) = 63
    /\ ddResult.db_name \in ddCluster

(***************************************************************************)
(* C32, C33: the type matrix                                               *)
(***************************************************************************)

\* C32: for every pair of types, when the change from A to B is classified
\* Safe, the change from B to A is classified DataLoss or Identical.
C32_SafeReverseIsDataLoss ==
    (tyForward = "Safe" /\ tyReverse # NotChecked)
        => tyReverse \in {"DataLoss", "Identical"}

BooleanSpellings == {"bool", "boolean", "BOOL", "BOOLEAN", "Boolean"}

IntegerSpellings == {"int4", "integer", "INT4", "INTEGER", "Integer"}

\* C33: BOOLEAN to INTEGER is classified Safe and INTEGER to BOOLEAN is
\* classified DataLoss, for every spelling of the two types (bool or
\* boolean, int4 or integer, any letter case).
C33_BooleanIntegerMatrix ==
    (tyPair.from \in BooleanSpellings /\ tyPair.to \in IntegerSpellings)
        => /\ tyForward \in {NotChecked, "Safe"}
           /\ tyReverse \in {NotChecked, "DataLoss"}

(***************************************************************************)
(* C34: checksums ignore comments, whitespace and case                     *)
(***************************************************************************)

\* C34: for every checksummed artifact kind (tables, functions, custom
\* types, migrations), two file texts that differ only in comments,
\* whitespace runs and letter case have the same checksum.
C34_ChecksumIgnoresFormatting ==
    ckSums # NoChecksums => ckSums[1] = ckSums[2]

\* The same for the kinds whose checksum is computed from the normalised
\* text, on texts without a comment opener inside a comment.
CkNormalisedKindsAgree ==
    (/\ ckSums # NoChecksums
     /\ ckInput.kind # "migrations"
     /\ "/* -- */ CREATE TABLE t" \notin {ckInput.a, ckInput.b})
        => ckSums[1] = ckSums[2]

(***************************************************************************)
(* C35, C36: failures inside POST /v2/migrate                              *)
(***************************************************************************)

\* The request answered by the step was turned down by the post-migration
\* verification: verify_schema did not pass and force is false.
GateVerificationRejected ==
    /\ gateOutcome'.error = "MigrationFailed"
    /\ gateOutcome'.migration = "schema verification"
    /\ ~gateOutcome'.force

\* C35: when the post-migration verification fails and force is false, the
\* migrate operation is rolled back: the database is left with the schema
\* it had before the request (the request's migrations are not left
\* applied).
C35_FailedVerificationRolledBack ==
    [][GateVerificationRejected => gateLive' = gateLive]_vars

\* The request answered by the step is a migrate-all batch of several
\* databases whose diff gate passed and in which a migration run or a
\* function deployment failed on one database.
GateBatchFailure ==
    /\ Len(gateOutcome'.databases_to_migrate) > 1
    /\ gateOutcome'.validation \in {"safe", "forced", "skipped"}
    /\ gateOutcome'.fault \in {"run_migrations", "deploy_functions"}

\* C36: in a migrate-all batch whose diff gate passed, a migration or
\* function failure on one database does not prevent the other databases
\* of the batch from being migrated: the migrations were run on every
\* database of the batch.
C36_BatchDatabasesIndependent ==
    [][GateBatchFailure =>
          \A k \in DOMAIN gateOutcome'.databases_to_migrate :
            \E i \in DOMAIN gateSql' :
              gateSql'[i] = <<gateOutcome'.databases_to_migrate[k],
                              "run_migrations">>]_vars

(***************************************************************************)
(* C37: a failing get_pool                                                 *)
(***************************************************************************)

\* C37: a get_pool call that returns an error (the test connection to the
\* target database fails) has left the pool map and the reserved-connection
\* counter as they were before the call: it has evicted no pool.
C37_FailedGetPoolEvictsNothing ==
    [][\A p \in Requesters :
          (pmProc[p].pc = "connect" /\ pmProc'[p].pc = "idle")
              => ~pmProc[p].evicted]_vars

(***************************************************************************)
(* C38: a function file whose execution fails                              *)
(***************************************************************************)

\* C38: an old overload is never dropped, and its tracking row never
\* deleted, unless the new definition of the file is then successfully
\* created: when executing a function file fails during a redeploy, the
\* previously deployed version stays resident and tracked.
C38_DropOnlyWithSuccessfulCreate ==
    \A i \in DOMAIN fnLog :
        fnLog[i].op \in {"drop", "delete"}
            => \E j \in DOMAIN fnLog :
                  j > i /\ FnLogged(fnLog, j, "exec", fnLog[i].file)

(***************************************************************************)
(* C39: a seeder file whose inserts fail part-way                          *)
(***************************************************************************)

\* The rows one step added to table t.
SdAdded(t) == SubSeq(sdRows'[t], Len(sdRows[t]) + 1, Len(sdRows'[t]))

\* Table t gained nothing, or every record of one seeder file that targets it.
SdAllOrNothing(t) ==
    \/ SdAdded(t) = <<>>
    \/ \E f \in DOMAIN sdDisk :
          /\ sdDisk[f] # NoInsert
          /\ sdDisk[f].table_name = t
          /\ SdAdded(t) = sdDisk[f].records

\* C39: a seeder file is applied all-or-nothing: after the seeder step ends,
\* successfully or with an error part-way through the file, the target table
\* holds either every row of the seeder file or none of them.
C39_SeederFileAllOrNothing ==
    [][\A t \in SeederTables : SdAllOrNothing(t)]_vars

\* A seeder step that ends successfully leaves every table with all rows of
\* a file or none.
SdSuccessfulRunAllOrNothing ==
    [][sdOutcome'.kind = "ok" => \A t \in SeederTables : SdAllOrNothing(t)]_vars

(***************************************************************************)
(* C40: concurrent record_database calls on one platform                   *)
(***************************************************************************)

\* Task t has answered 201.
CrSucceeded(t) == crTasks[t].pc = "done" /\ crTasks[t].outcome.status = 201

\* C40: when two create-database requests for the same platform both
\* complete successfully, overlapping in time or not, both databases are
\* recorded in that platform's registry afterwards.
C40_NoLostRegistryUpdate ==
    \A t1, t2 \in CrTaskIds :
        (/\ t1 # t2
         /\ CrSucceeded(t1) /\ CrSucceeded(t2)
         /\ crTasks[t1].platform = crTasks[t2].platform)
            => /\ <<crTasks[t1].platform, crTasks[t1].db>> \in registryDbs
               /\ <<crTasks[t2].platform, crTasks[t2].db>> \in registryDbs

====
